---- MODULE Spec2Model ----
(***************************************************************************)
(* Model of the multi-client stream job of the streams controller          *)
(* (music_assistant/server/controllers/streams.py): the job registry of    *)
(* StreamsController, the producer task of each MultiClientStreamJob and    *)
(* the subscribe() generators that drain the per-subscriber channels.       *)
(*                                                                         *)
(* Every asyncio suspension point of the code is a step boundary of the    *)
(* model: code between two awaits is one atomic action.  Timers (the 10 s  *)
(* connect timeout, the 2 s grace sleep) fire at any moment they are armed. *)
(***************************************************************************)
EXTENDS Naturals, Sequences, FiniteSets, TLC

\* ------------------------------------------------------------------ bounds
MaxJobs == 2      \* jobs created over a run of RegistrySpec
MaxSubs == 2      \* subscribe() calls over a run of Spec
MaxChunks == 3    \* data chunks the flow stream of a job can yield
MaxReqs == 1      \* HTTP requests over a run of EndpointSpec
MaxTracks == 2    \* queue items a flow goes through in FlowSpec
MaxTrackLen == 10 \* source chunks (of one second) of a track in FlowSpec
SeekTrackLen == 3 \* source chunks of a track in SeekSpec
MaxPcmChunks == 5 \* source chunks of a track in PcmSpec
MaxBlocks == 2    \* chunks of ffmpeg output written over a request in IcySpec
MaxWrites == 2    \* chunks of PCM written to ffmpeg over a request in PumpSpec
RegSubs == 1      \* subscribe() calls over a run of RegistrySpec
RegChunks == 1    \* data chunks of a flow in RegistrySpec

\* --------------------------------------------------------------- constants
QueueMaxSize == 2           \* asyncio.Queue(2)
sample_rate == 48000
bit_depth == 24
channels == 2
FLOW_MAX_SAMPLE_RATE == 96000
FLOW_MAX_BIT_DEPTH == 24
pcm_sample_size == sample_rate * (bit_depth \div 8) * channels

Queues == {"q1", "q2"}      \* queue ids known to the player queue controller
Players == {"p1", "p2"}     \* player ids known to the player controller
JobIds == 1..MaxJobs
Subs == 1..MaxSubs
EOF == 0                    \* the empty chunk b""
NoJob == 0
NoSub == 0
NoEntry == <<>>             \* a key that is not in client_seconds_skipped
Reqs == 1..MaxReqs
QueueItems == {"i1"}        \* queue item ids get_item() finds
\* What a request can name: the known ids and one id nothing is known by.
ReqQueues == Queues \cup {"q0"}
ReqPlayers == Players \cup {"p0"}
ReqItems == QueueItems \cup {"i0"}
ReqJobIds == JobIds \cup {NoJob}
\* A request that has not arrived: nothing sent, nothing started.
NoRequest ==
    [pos |-> "idle", endpoint |-> "none", method |-> "GET",
     queue_id |-> "q0", job_id |-> NoJob, player_id |-> "p0",
     queue_item_id |-> "i0", streamjob |-> NoJob, status |-> 0,
     headers_sent |-> FALSE, ffmpeg_proc |-> FALSE, source |-> FALSE,
     \* the flow endpoint: header Icy-MetaData: 1, a lossless output format,
     \* and the body written so far as a sequence of segments
     enable_icy |-> FALSE, lossless |-> FALSE, body |-> <<>>,
     \* the request came with the header Icy-MetaData: 1, and the headers of
     \* the response by name (of which the model keeps icy-metaint)
     icy_metadata |-> FALSE, headers |-> <<>>,
     \* the task read_audio(): where it is ("none", "running", "done", "error",
     \* "cancelled"), the chunks it wrote to ffmpeg, whether a write raised
     \* BrokenPipeError, and the calls of ffmpeg_proc.write_eof()
     pump |-> "none", stdin_written |-> 0, broken |-> FALSE, stdin_eof |-> 0]

\* Data chunks of a flow are numbered 1, 2, ... in production order.
\* Chunk k is ChunkBytes(k) bytes long; the empty chunk has length 0.
ChunkBytes(k) == k * (pcm_sample_size \div 2)

\* bytes / pcm_sample_size, the true division of the code, kept exact as
\* <<whole seconds, remaining bytes>>.
SecondsOf(bytes) == <<bytes \div pcm_sample_size, bytes % pcm_sample_size>>

\* A get_flow_stream generator that has not been called.  Audio is counted
\* in seconds of PCM (pcm_sample_size bytes): a source chunk is one second,
\* <<n, k>> is chunk k of the n-th queue item and <<0, k>> is crossfaded audio.
NoFlow ==
    [pos |-> "idle", tracks |-> <<>>, crossfade_duration |-> 0, n |-> 0,
     use_crossfade |-> FALSE, source_left |-> 0, chunk_num |-> 0,
     buffer |-> <<>>, last_fadeout_part |-> <<>>, bytes_written |-> 0,
     total_bytes_written |-> 0, yielded |-> <<>>,
     \* the item in work at each yield, the arguments of the call, what was
     \* recorded on the streamdetails of the items, the arguments each
     \* get_media_stream was opened with and the media streams that are open
     yield_track |-> <<>>, seek_position |-> 0, fade_in |-> FALSE,
     seconds_skipped |-> <<>>, seconds_streamed |-> <<>>,
     opened |-> <<>>, open |-> {}]

\* An unknown content type, and an output format that is not resolved.
NoFormat == [content_type |-> "?", sample_rate |-> 0, bit_depth |-> 0, channels |-> 0]

\* No URL minted or requested yet.
NoNegotiation ==
    [pos |-> "idle", minted |-> FALSE,
     player |-> [max_sample_rate |-> 0, supports_24bit |-> FALSE, output_channels |-> "stereo"],
     url |-> <<>>, computed |-> NoFormat, output_format |-> NoFormat,
     \* the defaults _get_output_format was called with
     default_sample_rate |-> 0, default_bit_depth |-> 0]

\* A get_flow_stream generator that has not been called, with its audio
\* counted in bytes: buffer, last_fadeout_part and the parts of yielded are
\* the len() of the bytes objects of the code.  yielded holds the parts the
\* last pass yielded, and aligned tells whether every chunk the media
\* streams delivered so far was a whole number of frames.
NoPcm ==
    [pos |-> "idle", pcm_format |-> NoFormat, tracks |-> <<>>,
     crossfade_duration |-> 0, n |-> 0, use_crossfade |-> FALSE,
     chunk_num |-> 0, buffer |-> 0, last_fadeout_part |-> 0,
     bytes_written |-> 0, total_bytes_written |-> 0,
     yielded |-> <<>>, aligned |-> TRUE]

VARIABLES
    multi_client_jobs,       \* StreamsController.multi_client_jobs: queue_id -> job
    num_jobs,                \* jobs constructed so far; job ids are 1..num_jobs
    job_queue,               \* job.queue_id
    _finished,               \* job._finished
    pc,                      \* position of job._audio_task (_stream_job_runner)
    cancel_req,              \* _audio_task.cancel() was called and is not yet delivered
    _all_clients_connected,  \* job._all_clients_connected (asyncio.Event)
    expected_players,        \* job.expected_players
    subscribed_players,      \* job.subscribed_players: player_id -> channel
    bytes_streamed,          \* job.bytes_streamed
    client_seconds_skipped,  \* job.client_seconds_skipped
    chunk_num,               \* chunk_num of _stream_job_runner
    cur_chunk,               \* the chunk _put_chunk is broadcasting
    snapshot,                \* list(self.subscribed_players.values()) of a running _put_chunk
    num_subs,                \* subscribe() generators started so far
    sub_job,                 \* the job a generator subscribed to
    sub_player,              \* its player_id argument
    sub_state,               \* "idle", "active" (in the read loop), "grace", "ended"
    sub_queue,               \* its channel, an asyncio.Queue(2)
    putter,                  \* the TaskGroup child putting cur_chunk on the channel
    received,                \* chunks the generator has yielded (history)
    late,                    \* the generator registered with the event already set
    requests,                \* the HTTP requests to the stream endpoints
    flow,                    \* the locals of a get_flow_stream generator
    negotiation,             \* one output format negotiation: a URL minted or requested, and its parse
    pcm                      \* the locals of a get_flow_stream generator, in bytes

jobVars == <<_finished, pc, cancel_req, _all_clients_connected, expected_players,
             subscribed_players, bytes_streamed, client_seconds_skipped,
             chunk_num, cur_chunk, snapshot>>
subVars == <<num_subs, sub_job, sub_player, sub_state, sub_queue, putter,
             received, late>>
regVars == <<multi_client_jobs, num_jobs, job_queue>>
vars == <<regVars, jobVars, subVars, requests, flow, negotiation, pcm>>

\* ----------------------------------------------------------------- helpers
\* A done() that also holds while the task waits for the event.
TaskDoneOrWaiting(j) == pc[j] \in {"done", "error", "cancelled", "wait"}

\* The task is done: it returned, raised, or the cancellation was delivered.
TaskDone(j) == pc[j] \in {"done", "error", "cancelled"}

\* MultiClientStreamJob.finished
finished(j) == _finished[j] \/ TaskDone(j)

\* A job that reports pending until its first chunk was broadcast.
pending_until_first_chunk(j) == ~finished(j) /\ chunk_num[j] = 0

\* MultiClientStreamJob.pending
pending(j) == ~finished(j) /\ ~_all_clients_connected[j]

\* MultiClientStreamJob.running
running(j) == ~finished(j) /\ ~pending(j)

\* The channels in job.subscribed_players.values().
RegisteredSubs(j) == {subscribed_players[j][p] : p \in Players} \ {NoSub}

\* len(job.subscribed_players)
NumSubscribed(j) == Cardinality({p \in Players : subscribed_players[j][p] # NoSub})

\* The data chunks ever put on the channel of generator s, in the order of
\* the puts: those it has yielded, then those still on the channel.
IsData(chunk) == chunk # EOF
EnqueuedData(s) == received[s] \o SelectSeq(sub_queue[s], IsData)

\* The channel of generator s is the one the map holds for its player.
IsRegistered(s) ==
    /\ sub_state[s] # "idle"
    /\ subscribed_players[sub_job[s]][sub_player[s]] = s

Init ==
    /\ multi_client_jobs = [q \in Queues |-> NoJob]
    /\ num_jobs = 0
    /\ job_queue = [j \in JobIds |-> "q1"]
    /\ _finished = [j \in JobIds |-> FALSE]
    /\ pc = [j \in JobIds |-> "pull"]
    /\ cancel_req = [j \in JobIds |-> FALSE]
    /\ _all_clients_connected = [j \in JobIds |-> FALSE]
    /\ expected_players = [j \in JobIds |-> {}]
    /\ subscribed_players = [j \in JobIds |-> [p \in Players |-> NoSub]]
    /\ bytes_streamed = [j \in JobIds |-> 0]
    /\ client_seconds_skipped = [j \in JobIds |-> [p \in Players |-> NoEntry]]
    /\ chunk_num = [j \in JobIds |-> 0]
    /\ cur_chunk = [j \in JobIds |-> EOF]
    /\ snapshot = [j \in JobIds |-> {}]
    /\ num_subs = 0
    /\ sub_job = [s \in Subs |-> 1]
    /\ sub_player = [s \in Subs |-> "p1"]
    /\ sub_state = [s \in Subs |-> "idle"]
    /\ sub_queue = [s \in Subs |-> <<>>]
    /\ putter = [s \in Subs |-> "none"]
    /\ received = [s \in Subs |-> <<>>]
    /\ late = [s \in Subs |-> FALSE]
    /\ requests = [r \in Reqs |-> NoRequest]
    /\ flow = NoFlow
    /\ negotiation = NoNegotiation
    /\ pcm = NoPcm

\* ------------------------------------------------- MultiClientStreamJob.stop
\* The channels stop() pushes the empty chunk to: put_nowait under
\* suppress(QueueFull) on every channel of subscribed_players.values().
stop_reaches(j, s) ==
    /\ sub_job[s] = j
    /\ IsRegistered(s)
    /\ Len(sub_queue[s]) < QueueMaxSize

\* _audio_task.cancel(): the runner is woken with CancelledError after every
\* task that is already scheduled.  A TaskGroup child that waits on a full
\* channel is therefore cancelled before it can put; a child that is already
\* scheduled still takes its step (queue_put).
putter_after_cancel(j) ==
    [s \in Subs |-> IF sub_job[s] = j /\ putter[s] = "blocked"
                      THEN "none" ELSE putter[s]]

stop(j) ==
    /\ _finished' = [_finished EXCEPT ![j] = TRUE]
    /\ IF TaskDone(j)
         THEN UNCHANGED <<cancel_req, putter, sub_queue>>
         ELSE /\ cancel_req' = [cancel_req EXCEPT ![j] = TRUE]
              /\ putter' = putter_after_cancel(j)
              /\ sub_queue' = [s \in Subs |->
                    IF stop_reaches(j, s) THEN Append(sub_queue[s], EOF)
                                          ELSE sub_queue[s]]

\* stop() called by the playback-control layer (a public method).  Its one
\* call site in the source guards it with "if not existing_job.finished".
StopJob(j) ==
    /\ j <= num_jobs
    /\ ~finished(j)
    /\ stop(j)
    /\ UNCHANGED <<negotiation, flow, pcm, requests, regVars, pc, _all_clients_connected, expected_players,
                   subscribed_players, bytes_streamed, client_seconds_skipped,
                   chunk_num, cur_chunk, snapshot, num_subs, sub_job,
                   sub_player, sub_state, received, late>>

\* A create_multi_client_stream_job that leaves the job it replaces running.
never_stop(existing_job) == FALSE

\* ------------------------- StreamsController.create_multi_client_stream_job
\* "if existing_job := pop(queue_id): if not existing_job.finished: stop()"
must_stop(existing_job) == existing_job # NoJob /\ ~finished(existing_job)

\* The constructor leaves the new job with the field values of Init and its
\* producer task scheduled (pc = "pull").
create_multi_client_stream_job(queue_id) ==
    /\ LET existing_job == multi_client_jobs[queue_id]
           stream_job == num_jobs + 1
       IN  /\ IF must_stop(existing_job)
                THEN stop(existing_job)
                ELSE UNCHANGED <<_finished, cancel_req, putter, sub_queue>>
           /\ multi_client_jobs' = [multi_client_jobs EXCEPT ![queue_id] = stream_job]
           /\ num_jobs' = stream_job
           /\ job_queue' = [job_queue EXCEPT ![stream_job] = queue_id]
    /\ UNCHANGED <<negotiation, flow, pcm, requests, pc, _all_clients_connected, expected_players,
                   subscribed_players, bytes_streamed, client_seconds_skipped,
                   chunk_num, cur_chunk, snapshot, num_subs, sub_job,
                   sub_player, sub_state, received, late>>

\* ------------------------------- MultiClientStreamJob.resolve_stream_url
resolve_stream_url(j, child_player_id) ==
    /\ j <= num_jobs
    /\ child_player_id \notin expected_players[j]
    /\ expected_players' = [expected_players EXCEPT ![j] = @ \cup {child_player_id}]
    /\ UNCHANGED <<negotiation, flow, pcm, requests, regVars, subVars, _finished, pc, cancel_req,
                   _all_clients_connected, subscribed_players, bytes_streamed,
                   client_seconds_skipped, chunk_num, cur_chunk, snapshot>>

\* A _put_chunk that serves the channel that registered first only.
broadcast_snapshot_first(j) ==
    {s \in RegisteredSubs(j) : \A r \in RegisteredSubs(j) : s <= r}

\* ------------------------------------------ MultiClientStreamJob._put_chunk
\* "for sub_queue in list(self.subscribed_players.values())"
broadcast_snapshot(j) == RegisteredSubs(j)

\* A _put_chunk that does not count the chunk.
put_chunk_end_uncounted(j, chunk) ==
    /\ snapshot' = [snapshot EXCEPT ![j] = {}]
    /\ UNCHANGED bytes_streamed
    /\ chunk_num' = [chunk_num EXCEPT ![j] = IF chunk = EOF THEN @ ELSE @ + 1]
    /\ pc' = [pc EXCEPT ![j] = IF chunk = EOF THEN "done" ELSE "pull"]

\* The TaskGroup has no child left: "self.bytes_streamed += len(chunk)", then
\* the runner goes on (chunk_num += 1 and the next chunk of the flow, or the
\* end of the task after the empty chunk).
put_chunk_end(j, chunk) ==
    /\ snapshot' = [snapshot EXCEPT ![j] = {}]
    /\ bytes_streamed' = [bytes_streamed EXCEPT ![j] = @ + ChunkBytes(chunk)]
    /\ chunk_num' = [chunk_num EXCEPT ![j] = IF chunk = EOF THEN @ ELSE @ + 1]
    /\ pc' = [pc EXCEPT ![j] = IF chunk = EOF THEN "done" ELSE "pull"]

\* _put_chunk(chunk) up to its first suspension: one child per channel of the
\* snapshot is created and scheduled.  A TaskGroup without children does not
\* suspend, so with an empty snapshot the call completes in the same step.
put_chunk_start(j, chunk) ==
    LET subs == broadcast_snapshot(j)
    IN  /\ cur_chunk' = [cur_chunk EXCEPT ![j] = chunk]
        /\ putter' = [s \in Subs |-> IF s \in subs THEN "ready" ELSE putter[s]]
        /\ IF subs = {}
             THEN put_chunk_end(j, chunk)
             ELSE /\ snapshot' = [snapshot EXCEPT ![j] = subs]
                  /\ pc' = [pc EXCEPT ![j] = "put"]
                  /\ UNCHANGED <<bytes_streamed, chunk_num>>

\* A child that skips a full channel (put_nowait under suppress(QueueFull))
\* instead of waiting for room.
queue_put_nowait(s) ==
    /\ putter[s] = "ready"
    /\ putter' = [putter EXCEPT ![s] = "none"]
    /\ sub_queue' = [sub_queue EXCEPT ![s] =
            IF Len(@) < QueueMaxSize THEN Append(@, cur_chunk[sub_job[s]]) ELSE @]
    /\ UNCHANGED <<negotiation, flow, pcm, requests, regVars, jobVars, num_subs, sub_job, sub_player, sub_state,
                   received, late>>

\* One step of the child "sub_queue.put(chunk)": it puts when the channel has
\* room and otherwise waits for a get() (or ends, when the runner is being
\* cancelled).
queue_put(s) ==
    /\ putter[s] = "ready"
    /\ IF Len(sub_queue[s]) < QueueMaxSize
         THEN /\ sub_queue' = [sub_queue EXCEPT ![s] = Append(@, cur_chunk[sub_job[s]])]
              /\ putter' = [putter EXCEPT ![s] = "none"]
         ELSE /\ putter' = [putter EXCEPT ![s] =
                     IF cancel_req[sub_job[s]] THEN "none" ELSE "blocked"]
              /\ UNCHANGED sub_queue
    /\ UNCHANGED <<negotiation, flow, pcm, requests, regVars, jobVars, num_subs, sub_job, sub_player, sub_state,
                   received, late>>

\* A _put_chunk that creates the children and does not wait for them.
put_chunk_done_unawaited(j) ==
    /\ pc[j] = "put"
    /\ ~cancel_req[j]
    /\ put_chunk_end(j, cur_chunk[j])
    /\ UNCHANGED <<negotiation, flow, pcm, requests, regVars, subVars, _finished, cancel_req, _all_clients_connected,
                   expected_players, subscribed_players, client_seconds_skipped,
                   cur_chunk>>

\* The runner resumes after the last child of the TaskGroup has ended.
put_chunk_done(j) ==
    /\ pc[j] = "put"
    /\ ~cancel_req[j]
    /\ \A s \in snapshot[j] : putter[s] = "none"
    /\ put_chunk_end(j, cur_chunk[j])
    /\ UNCHANGED <<negotiation, flow, pcm, requests, regVars, subVars, _finished, cancel_req, _all_clients_connected,
                   expected_players, subscribed_players, client_seconds_skipped,
                   cur_chunk>>

\* ------------------------------------ MultiClientStreamJob._stream_job_runner
\* The flow stream yields its next chunk.  Chunk 0 waits for the event unless
\* it is already set (Event.wait() then returns without suspending).
flow_next_chunk(j) ==
    /\ j <= num_jobs
    /\ pc[j] = "pull"
    /\ ~cancel_req[j]
    /\ IF chunk_num[j] = 0 /\ ~_all_clients_connected[j]
         THEN /\ pc' = [pc EXCEPT ![j] = "wait"]
              /\ cur_chunk' = [cur_chunk EXCEPT ![j] = 1]
              /\ UNCHANGED <<snapshot, putter, bytes_streamed, chunk_num>>
         ELSE put_chunk_start(j, chunk_num[j] + 1)
    /\ UNCHANGED <<negotiation, flow, pcm, requests, regVars, _finished, cancel_req, _all_clients_connected,
                   expected_players, subscribed_players, client_seconds_skipped,
                   num_subs, sub_job, sub_player, sub_state, sub_queue,
                   received, late>>

\* The flow stream is exhausted: "await self._put_chunk(b'')".
flow_exhausted(j) ==
    /\ j <= num_jobs
    /\ pc[j] = "pull"
    /\ ~cancel_req[j]
    /\ put_chunk_start(j, EOF)
    /\ UNCHANGED <<negotiation, flow, pcm, requests, regVars, _finished, cancel_req, _all_clients_connected,
                   expected_players, subscribed_players, client_seconds_skipped,
                   num_subs, sub_job, sub_player, sub_state, sub_queue,
                   received, late>>

\* The flow stream raises (a provider I/O error): the task ends with it.
flow_error(j) ==
    /\ j <= num_jobs
    /\ pc[j] = "pull"
    /\ ~cancel_req[j]
    /\ pc' = [pc EXCEPT ![j] = "error"]
    /\ UNCHANGED <<negotiation, flow, pcm, requests, regVars, subVars, _finished, cancel_req, _all_clients_connected,
                   expected_players, subscribed_players, bytes_streamed,
                   client_seconds_skipped, chunk_num, cur_chunk, snapshot>>

\* A runner that does not wait for the event before chunk 0.
wait_skipped(j) ==
    /\ pc[j] = "wait"
    /\ ~cancel_req[j]
    /\ put_chunk_start(j, 1)
    /\ UNCHANGED <<negotiation, flow, pcm, requests, regVars, _finished, cancel_req, _all_clients_connected,
                   expected_players, subscribed_players, client_seconds_skipped,
                   num_subs, sub_job, sub_player, sub_state, sub_queue,
                   received, late>>

\* "await self._all_clients_connected.wait()" returns.
wait_connected(j) ==
    /\ pc[j] = "wait"
    /\ ~cancel_req[j]
    /\ _all_clients_connected[j]
    /\ put_chunk_start(j, 1)
    /\ UNCHANGED <<negotiation, flow, pcm, requests, regVars, _finished, cancel_req, _all_clients_connected,
                   expected_players, subscribed_players, client_seconds_skipped,
                   num_subs, sub_job, sub_player, sub_state, sub_queue,
                   received, late>>

\* A runner that goes on after the timeout without subscribers.
timeout_never_aborts(j) == FALSE

\* "except TimeoutError": abort without subscribers (break, then the empty
\* chunk to an empty map), else set the event and go on.
timeout_aborts(j) == NumSubscribed(j) = 0

wait_timeout(j) ==
    /\ pc[j] = "wait"
    /\ ~cancel_req[j]
    /\ IF timeout_aborts(j)
         THEN /\ put_chunk_start(j, EOF)
              /\ UNCHANGED _all_clients_connected
         ELSE /\ _all_clients_connected' = [_all_clients_connected EXCEPT ![j] = TRUE]
              /\ put_chunk_start(j, 1)
    /\ UNCHANGED <<negotiation, flow, pcm, requests, regVars, _finished, cancel_req, expected_players,
                   subscribed_players, client_seconds_skipped, num_subs, sub_job,
                   sub_player, sub_state, sub_queue, received, late>>

\* The CancelledError reaches the runner: after the children that were
\* scheduled before the cancel() have run.
task_cancelled(j) ==
    /\ cancel_req[j]
    /\ ~TaskDone(j)
    /\ \A s \in Subs : sub_job[s] = j => putter[s] # "ready"
    /\ pc' = [pc EXCEPT ![j] = "cancelled"]
    /\ cancel_req' = [cancel_req EXCEPT ![j] = FALSE]
    /\ UNCHANGED <<negotiation, flow, pcm, requests, regVars, subVars, _finished, _all_clients_connected,
                   expected_players, subscribed_players, bytes_streamed,
                   client_seconds_skipped, chunk_num, cur_chunk, snapshot>>

\* A subscribe() that tests "not self.pending" instead of the event.
joins_late_not_pending(j) == ~pending(j)

\* ------------------------------------------- MultiClientStreamJob.subscribe
\* "if self._all_clients_connected.is_set()": the client joins a started stream.
joins_late(j) == _all_clients_connected[j]

\* "self.bytes_streamed / self.pcm_format.pcm_sample_size"
seconds_missed(j) == SecondsOf(bytes_streamed[j])

\* "if len(self.subscribed_players) == len(self.expected_players)", evaluated
\* on the map that already holds the new channel.
all_expected_connected(j, subscribed) ==
    Cardinality({p \in Players : subscribed[p] # NoSub})
        = Cardinality(expected_players[j])

\* The generator's first step, from its start to the first "await
\* sub_queue.get()": a fresh channel replaces whatever the map held for the
\* player.  The request handler looked the job up before it suspended, so the
\* job may have been replaced or finished in the meantime.
subscribe(j, player_id) ==
    /\ j <= num_jobs
    /\ LET s == num_subs + 1
           subscribed == [subscribed_players[j] EXCEPT ![player_id] = s]
       IN  /\ num_subs' = s
           /\ sub_job' = [sub_job EXCEPT ![s] = j]
           /\ sub_player' = [sub_player EXCEPT ![s] = player_id]
           /\ sub_state' = [sub_state EXCEPT ![s] = "active"]
           /\ subscribed_players' = [subscribed_players EXCEPT ![j] = subscribed]
           /\ IF joins_late(j)
                THEN /\ client_seconds_skipped' =
                          [client_seconds_skipped EXCEPT ![j][player_id] = seconds_missed(j)]
                     /\ late' = [late EXCEPT ![s] = TRUE]
                ELSE UNCHANGED <<client_seconds_skipped, late>>
           /\ _all_clients_connected' = [_all_clients_connected EXCEPT ![j] =
                    @ \/ all_expected_connected(j, subscribed)]
    /\ UNCHANGED <<regVars, _finished, pc, cancel_req, expected_players,
                   bytes_streamed, chunk_num, cur_chunk, snapshot, sub_queue,
                   putter, received>>

\* "finally: self.subscribed_players.pop(player_id, None)": the map entry of
\* the player, whichever channel it holds.
unsubscribed(s) ==
    [subscribed_players EXCEPT ![sub_job[s]][sub_player[s]] = NoSub]

\* "chunk = await sub_queue.get()": a data chunk is yielded, the empty chunk
\* ends the loop and runs the finally block up to its sleep.  A get() wakes
\* the child that waits to put on this channel.
queue_get(s) ==
    /\ sub_state[s] = "active"
    /\ sub_queue[s] # <<>>
    /\ sub_queue' = [sub_queue EXCEPT ![s] = Tail(@)]
    /\ putter' = [putter EXCEPT ![s] = IF @ = "blocked" THEN "ready" ELSE @]
    /\ IF Head(sub_queue[s]) = EOF
         THEN /\ subscribed_players' = unsubscribed(s)
              /\ sub_state' = [sub_state EXCEPT ![s] = "grace"]
              /\ UNCHANGED received
         ELSE /\ received' = [received EXCEPT ![s] = Append(@, Head(sub_queue[s]))]
              /\ UNCHANGED <<subscribed_players, sub_state>>
    /\ UNCHANGED <<negotiation, flow, pcm, requests, regVars, _finished, pc, cancel_req, _all_clients_connected,
                   expected_players, bytes_streamed, client_seconds_skipped,
                   chunk_num, cur_chunk, snapshot, num_subs, sub_job,
                   sub_player, late>>

\* The consumer goes away (its transcoder's pipe breaks or its request is
\* cancelled): the generator is closed and runs its finally block up to the
\* sleep.
client_disconnects(s) ==
    /\ sub_state[s] = "active"
    /\ subscribed_players' = unsubscribed(s)
    /\ sub_state' = [sub_state EXCEPT ![s] = "grace"]
    /\ UNCHANGED <<negotiation, flow, pcm, requests, regVars, _finished, pc, cancel_req, _all_clients_connected,
                   expected_players, bytes_streamed, client_seconds_skipped,
                   chunk_num, cur_chunk, snapshot, num_subs, sub_job,
                   sub_player, sub_queue, putter, received, late>>

\* A grace check that cancels whenever the job is not finished.
grace_cancels_always(j) == ~finished(j)

\* "if len(self.subscribed_players) == 0 and self._audio_task and not self.finished"
grace_cancels(j) == NumSubscribed(j) = 0 /\ ~finished(j)

\* The finally block after "await asyncio.sleep(2)".
grace_check(s) ==
    /\ sub_state[s] = "grace"
    /\ sub_state' = [sub_state EXCEPT ![s] = "ended"]
    /\ IF grace_cancels(sub_job[s])
         THEN /\ cancel_req' = [cancel_req EXCEPT ![sub_job[s]] = TRUE]
              /\ putter' = putter_after_cancel(sub_job[s])
         ELSE UNCHANGED <<cancel_req, putter>>
    /\ UNCHANGED <<negotiation, flow, pcm, requests, regVars, _finished, pc, _all_clients_connected,
                   expected_players, subscribed_players, bytes_streamed,
                   client_seconds_skipped, chunk_num, cur_chunk, snapshot,
                   num_subs, sub_job, sub_player, sub_queue, received, late>>

\* Strings are sequences of characters.
Digits == <<"0", "1", "2", "3", "4", "5", "6", "7", "8", "9">>

RECURSIVE str(_)
\* str(n) of the f-strings, for n >= 0
str(n) == IF n < 10 THEN <<Digits[n + 1]>> ELSE str(n \div 10) \o <<Digits[(n % 10) + 1]>>

\* ------------------------------------------------ the stream endpoints
\* "self.multi_client_jobs.get(queue_id)"
registry_get(queue_id) ==
    IF queue_id \in DOMAIN multi_client_jobs THEN multi_client_jobs[queue_id]
                                             ELSE NoJob

\* Lookups that accept every job_id for a queue that has a job.
multi_not_found_any_job_id(queue_id, job_id, player_id) ==
    \/ registry_get(queue_id) = NoJob
    \/ player_id \notin Players

\* The lookups of serve_multi_subscriber_stream that raise web.HTTPNotFound:
\* no job for the queue, another job_id than the job's, an unknown player.
multi_not_found(queue_id, job_id, player_id) ==
    \/ registry_get(queue_id) = NoJob
    \/ job_id # registry_get(queue_id)
    \/ player_id \notin Players

\* Lookups that do not test the queue item.
queue_not_found_item_unchecked(queue_id, queue_item_id) ==
    queue_id \notin Queues

\* The lookups of serve_queue_item_stream and serve_queue_flow_stream that
\* raise web.HTTPNotFound: player_queues.get(queue_id) and get_item().
queue_not_found(queue_id, queue_item_id) ==
    \/ queue_id \notin Queues
    \/ queue_item_id \notin QueueItems

\* "raise web.HTTPNotFound(...)": the handler ends, aiohttp answers 404.
\* req is the request as it arrived: its method and its match_info.
not_found(r, req) ==
    requests' = [requests EXCEPT ![r] =
        [req EXCEPT !.pos = "not_found", !.status = 404]]

\* The lookups passed: the handler goes on to "await self._get_output_format".
found(r, req, streamjob) ==
    requests' = [requests EXCEPT ![r] =
        [req EXCEPT !.pos = "format", !.streamjob = streamjob]]

\* serve_multi_subscriber_stream up to its first await.
serve_multi_subscriber_stream(r, method, queue_id, job_id, player_id, icy_metadata) ==
    /\ requests[r].pos = "idle"
    /\ LET req == [NoRequest EXCEPT !.endpoint = "multi", !.method = method,
                                    !.queue_id = queue_id, !.job_id = job_id,
                                    !.player_id = player_id,
                                    !.icy_metadata = icy_metadata]
       IN  IF multi_not_found(queue_id, job_id, player_id)
             THEN not_found(r, req)
             ELSE found(r, req, registry_get(queue_id))
    /\ UNCHANGED <<negotiation, flow, pcm, regVars, jobVars, subVars>>

\* serve_queue_item_stream up to "await self._get_output_format";
\* get_stream_details may raise MediaNotFoundError, answered 404 as well.
serve_queue_item_stream(r, method, queue_id, queue_item_id, media_found, icy_metadata) ==
    /\ requests[r].pos = "idle"
    /\ LET req == [NoRequest EXCEPT !.endpoint = "single", !.method = method,
                                    !.queue_id = queue_id,
                                    !.queue_item_id = queue_item_id,
                                    !.icy_metadata = icy_metadata]
       IN  IF queue_not_found(queue_id, queue_item_id) \/ ~media_found
             THEN not_found(r, req)
             ELSE found(r, req, NoJob)
    /\ UNCHANGED <<negotiation, flow, pcm, regVars, jobVars, subVars>>

\* serve_queue_flow_stream up to its first await.
\* enable_icy is the test of the request header, lossless what the fmt of the
\* URL resolves to (output_format.content_type.is_lossless()).
serve_queue_flow_stream(r, method, queue_id, queue_item_id, enable_icy, lossless) ==
    /\ requests[r].pos = "idle"
    /\ LET req == [NoRequest EXCEPT !.endpoint = "flow", !.method = method,
                                    !.queue_id = queue_id,
                                    !.queue_item_id = queue_item_id,
                                    !.icy_metadata = enable_icy,
                                    !.enable_icy = enable_icy,
                                    !.lossless = lossless]
       IN  IF queue_not_found(queue_id, queue_item_id)
             THEN not_found(r, req)
             ELSE found(r, req, NoJob)
    /\ UNCHANGED <<negotiation, flow, pcm, regVars, jobVars, subVars>>

\* A handler without the early return.
never_head(method) == FALSE

\* 'if request.method == "HEAD": return resp'
is_head(method) == method = "HEAD"

\* "icy_meta_interval = 65536 if output_format.content_type.is_lossless() else 8192"
icy_meta_interval(req) == IF req.lossless THEN 65536 ELSE 8192

\* Headers that carry icy-metaint on every endpoint.
headers_icy_always(req) ==
    IF req.icy_metadata THEN ("icy-metaint" :> str(icy_meta_interval(req))) ELSE <<>>

\* The headers of the response next to DEFAULT_STREAM_HEADERS and
\* Content-Type: 'if enable_icy: headers["icy-metaint"] = str(icy_meta_interval)'
\* in serve_queue_flow_stream, nothing in the other two handlers.
headers(req) ==
    IF req.endpoint = "flow" /\ req.enable_icy
      THEN ("icy-metaint" :> str(icy_meta_interval(req)))
      ELSE <<>>

\* "await resp.prepare(request)" sends the status line and the headers; a
\* HEAD request returns, any other goes on to the ffmpeg arguments.
resp_prepare(r) ==
    /\ requests[r].pos = "format"
    /\ requests' = [requests EXCEPT
           ![r].status = 200,
           ![r].headers_sent = TRUE,
           ![r].headers = headers(requests[r]),
           ![r].pos = IF is_head(requests[r].method) THEN "returned" ELSE "args"]
    /\ UNCHANGED <<negotiation, flow, pcm, regVars, jobVars, subVars>>

\* "async with AsyncProcess(ffmpeg_args, True) as ffmpeg_proc" starts ffmpeg
\* and "ffmpeg_proc.attach_task(read_audio())" schedules the feeder.
start_ffmpeg(r) ==
    /\ requests[r].pos = "args"
    /\ requests' = [requests EXCEPT ![r].ffmpeg_proc = TRUE,
                                    ![r].pos = "attached"]
    /\ UNCHANGED <<negotiation, flow, pcm, regVars, jobVars, subVars>>

\* The first step of read_audio(): it starts the PCM source, which on the
\* multi endpoint is the generator streamjob.subscribe(child_player_id).
read_audio(r) ==
    /\ requests[r].pos = "attached"
    /\ requests' = [requests EXCEPT ![r].source = TRUE, ![r].pos = "streaming",
                                    ![r].pump = "running"]
    /\ IF requests[r].endpoint = "multi"
         THEN subscribe(requests[r].streamjob, requests[r].player_id)
         ELSE UNCHANGED <<regVars, jobVars, subVars>>
    /\ UNCHANGED <<negotiation, flow, pcm>>

\* ------------------------------------------------ read_audio(), the feeder
\* A feeder that closes stdin only when it ends without an exception
\* ("else:" in place of "finally:").
read_audio_ends_else(req, how) ==
    [req EXCEPT !.pump = how, !.stdin_eof = IF how = "done" THEN @ + 1 ELSE @]

\* "finally: ffmpeg_proc.write_eof()": the task ends, returning ("done"),
\* with the exception of the source ("error") or cancelled.
read_audio_ends(req, how) ==
    [req EXCEPT !.pump = how, !.stdin_eof = @ + 1]

\* One pass of "async for chunk in <source>": "await ffmpeg_proc.write(chunk)"
\* writes the chunk, or raises BrokenPipeError: "break".
read_audio_write(r, broken_pipe) ==
    /\ requests[r].pump = "running"
    /\ requests' = [requests EXCEPT ![r] =
           IF broken_pipe
             THEN read_audio_ends([@ EXCEPT !.broken = TRUE], "done")
             ELSE [@ EXCEPT !.stdin_written = @ + 1]]
    /\ UNCHANGED <<negotiation, flow, pcm, regVars, jobVars, subVars>>

\* The source is exhausted: the loop ends.
read_audio_exhausted(r) ==
    /\ requests[r].pump = "running"
    /\ requests' = [requests EXCEPT ![r] = read_audio_ends(@, "done")]
    /\ UNCHANGED <<negotiation, flow, pcm, regVars, jobVars, subVars>>

\* The source raises: the exception leaves the task through the finally.
read_audio_error(r) ==
    /\ requests[r].pump = "running"
    /\ requests' = [requests EXCEPT ![r] = read_audio_ends(@, "error")]
    /\ UNCHANGED <<negotiation, flow, pcm, regVars, jobVars, subVars>>

\* The task is cancelled while it waits for the source or for the write.
read_audio_cancelled(r) ==
    /\ requests[r].pump = "running"
    /\ requests' = [requests EXCEPT ![r] = read_audio_ends(@, "cancelled")]
    /\ UNCHANGED <<negotiation, flow, pcm, regVars, jobVars, subVars>>

\* --------------------------- serve_queue_flow_stream: the response body
\* The sizes of the chunks the iterator over ffmpeg's output delivers:
\* iter_chunked(icy_meta_interval) reads exact chunks of that size,
\* iter_any(768000) chunks of any size up to 768000 (enable_icy is a local
\* of serve_queue_flow_stream: the other two handlers use iter_any).
iterator_sizes(req) ==
    IF req.enable_icy THEN {icy_meta_interval(req)} ELSE {1, 8192, 768000}

\* The item player_queues.get_item(queue_id, queue.index_in_buffer) returns,
\* by the length in bytes of its encoded stream_title and name (0: none).
CurrentItems == [stream_title : {0, 1, 2018}, name : {0, 2, 17}]

\* The length of the encoded title: the stream_title of the current item,
\* else its name, else "Music Assistant".
title_len(current_item) ==
    IF current_item.stream_title > 0 THEN current_item.stream_title
    ELSE IF current_item.name > 0 THEN current_item.name
    ELSE 15

\* len(f"StreamTitle='{title}';".encode())
metadata_len(current_item) == 13 + title_len(current_item) + 2

\* "while len(metadata) % 16 != 0: metadata += b'\x00'"
padded_len(n) == ((n + 15) \div 16) * 16

\* chr(cp).encode(): the UTF-8 encoding of the code point cp.
chr_encode(cp) ==
    IF cp < 128 THEN <<cp>>
    ELSE IF cp < 2048 THEN <<192 + (cp \div 64), 128 + (cp % 64)>>
    ELSE <<224 + (cp \div 4096), 128 + ((cp \div 64) % 64), 128 + (cp % 64)>>

\* "length_b = chr(int(length / 16)).encode()"
length_b(current_item) == chr_encode(padded_len(metadata_len(current_item)) \div 16)

\* The segments of a body: audio bytes, the length bytes, the metadata bytes
\* (unpadded is the length of the metadata before the zero bytes).
AudioSegment(n) ==
    [kind |-> "audio", len |-> n, bytes |-> <<>>, prefix |-> "", unpadded |-> 0]
LengthSegment(bytes) ==
    [kind |-> "length", len |-> Len(bytes), bytes |-> bytes, prefix |-> "", unpadded |-> 0]
MetadataSegment(current_item) ==
    [kind |-> "metadata", len |-> padded_len(metadata_len(current_item)),
     bytes |-> <<>>, prefix |-> "StreamTitle='",
     unpadded |-> metadata_len(current_item)]

\* One pass of "async for chunk in iterator": resp.write(chunk) and, on the
\* flow endpoint with ICY, resp.write(length_b + metadata) for the current item.
resp_write(r, n, current_item) ==
    /\ requests[r].pos = "streaming"
    /\ n \in iterator_sizes(requests[r])
    /\ requests' = [requests EXCEPT ![r].body =
           IF requests[r].enable_icy
             THEN @ \o <<AudioSegment(n), LengthSegment(length_b(current_item)),
                         MetadataSegment(current_item)>>
             ELSE Append(@, AudioSegment(n))]
    /\ UNCHANGED <<negotiation, flow, pcm, regVars, jobVars, subVars>>

\* The iterator ends (ffmpeg closed its output) or the client is gone
\* ("break"): "return resp".
resp_done(r) ==
    /\ requests[r].pos = "streaming"
    /\ requests' = [requests EXCEPT ![r].pos = "returned"]
    /\ UNCHANGED <<negotiation, flow, pcm, regVars, jobVars, subVars>>

\* ------------------------------------- StreamsController.get_flow_stream
\* Python slices of a bytes object.
Min(a, b) == IF a <= b THEN a ELSE b
\* A slice that is one byte short.
SliceToShort(b, n) == SubSeq(b, 1, Min(n, Len(b)) - 1)
\* b[:n]
SliceTo(b, n) == SubSeq(b, 1, Min(n, Len(b)))
\* b[n:]
SliceFrom(b, n) == SubSeq(b, Min(n, Len(b)) + 1, Len(b))
\* b[-n:] (the whole of b for n = 0)
SliceLast(b, n) == IF n = 0 THEN b ELSE SubSeq(b, Len(b) - Min(n, Len(b)) + 1, Len(b))
\* b[:-n] (empty for n = 0)
SliceButLast(b, n) == IF n = 0 THEN <<>> ELSE SubSeq(b, 1, Len(b) - Min(n, Len(b)))

\* crossfade_pcm_parts(fade_in_part, fade_out_part, ...): the two windows
\* collapse into one window of mixed audio.
crossfade_pcm_parts(fade_in_part, fade_out_part) ==
    [k \in 1..Len(fade_in_part) |-> <<0, k>>]

\* "crossfade_size = int(pcm_sample_size * crossfade_duration)", in seconds.
crossfade_size(f) == f.crossfade_duration

\* "buffer_size = crossfade_size if use_crossfade else int(pcm_sample_size * 2)"
buffer_size(f) == IF f.use_crossfade THEN crossfade_size(f) ELSE 2

\* A queue item: the number of chunks its media stream delivers, whether
\* get_stream_details finds it, and the use_crossfade flag that comes with it
\* (queue.crossfade_enabled for the start item, preload_next_url's otherwise).
QueueTracks ==
    [chunks : 0..MaxTrackLen, found : BOOLEAN, crossfade : BOOLEAN]

\* The call: "queue_track = start_queue_item", up to "await get_stream_details".
\* tracks is the start item followed by the items preload_next_url will return.
get_flow_stream(tracks, crossfade_duration, seek_position, fade_in) ==
    /\ flow.pos = "idle"
    /\ flow' = [NoFlow EXCEPT !.pos = "details", !.tracks = tracks,
                              !.crossfade_duration = crossfade_duration,
                              !.seek_position = seek_position,
                              !.fade_in = fade_in,
                              !.n = 1, !.use_crossfade = tracks[1].crossfade]
    /\ UNCHANGED <<regVars, jobVars, subVars, requests, negotiation, pcm>>

\* A loop that also stops after a track that streamed nothing.
queue_empty_or_silent(f) == f.n >= Len(f.tracks) \/ f.bytes_written = 0

\* "except QueueEmpty: break"
queue_empty(f) == f.n >= Len(f.tracks)

\* A loop that keeps seek_position and fade_in for the later items.
later_item_args_kept(f) == f

\* "seek_position = 0; fade_in = False" of the else branch
later_item_args(f) == [f EXCEPT !.seek_position = 0, !.fade_in = FALSE]

\* The top of the loop for a later item: preload_next_url returns the next
\* item or raises QueueEmpty, which ends the generator.
preload_next_url ==
    /\ flow.pos = "next"
    /\ LET f == later_item_args(flow)
       IN  IF queue_empty(flow)
             THEN flow' = [f EXCEPT !.pos = "ended"]
             ELSE flow' = [f EXCEPT !.pos = "details", !.n = @ + 1,
                                    !.use_crossfade = flow.tracks[flow.n + 1].crossfade]
    /\ UNCHANGED <<regVars, jobVars, subVars, requests, negotiation, pcm>>

\* A get_stream_details that finds every item.
stream_details_always_found(f) == TRUE

\* get_stream_details(mass, queue_track) does not raise MediaNotFoundError.
stream_details_found(f) == f.tracks[f.n].found

\* get_stream_details returns, or raises MediaNotFoundError ("continue");
\* then the locals of the track are set and the media stream is opened.
get_stream_details ==
    /\ flow.pos = "details"
    /\ IF stream_details_found(flow)
         THEN flow' = [flow EXCEPT !.pos = "stream", !.buffer = <<>>,
                                   !.bytes_written = 0, !.chunk_num = 0,
                                   !.source_left = flow.tracks[flow.n].chunks,
                                   !.seconds_skipped = @ @@ (flow.n :> flow.seek_position),
                                   !.opened = @ @@ (flow.n :> <<flow.seek_position, flow.fade_in>>),
                                   !.open = @ \cup {flow.n}]
         ELSE flow' = [flow EXCEPT !.pos = "next"]
    /\ UNCHANGED <<regVars, jobVars, subVars, requests, negotiation, pcm>>

\* One pass of "async for chunk in get_media_stream(...)", with what it yields.
handle_chunk ==
    /\ flow.pos = "stream"
    /\ flow.source_left > 0
    /\ LET chunk == << <<flow.n, flow.chunk_num + 1>> >>
           f == [flow EXCEPT !.chunk_num = @ + 1, !.source_left = @ - 1]
       IN  IF f.last_fadeout_part # <<>> /\ Len(f.buffer) >= buffer_size(f)
             THEN LET first_part == f.buffer \o chunk
                      fadein_part == SliceTo(first_part, crossfade_size(f))
                      remaining_bytes == SliceFrom(first_part, crossfade_size(f))
                      crossfade_part == crossfade_pcm_parts(fadein_part, f.last_fadeout_part)
                  IN  flow' = [f EXCEPT
                          !.yielded = @ \o <<crossfade_part>> \o
                              (IF remaining_bytes # <<>> THEN <<remaining_bytes>> ELSE <<>>),
                          !.yield_track = @ \o <<f.n>> \o
                              (IF remaining_bytes # <<>> THEN <<f.n>> ELSE <<>>),
                          !.bytes_written = @ + Len(crossfade_part) + Len(remaining_bytes),
                          !.last_fadeout_part = <<>>,
                          !.buffer = <<>>]
             ELSE IF Len(f.buffer) >= buffer_size(f) * 2
                    THEN flow' = [f EXCEPT
                             !.yielded = Append(@, SliceTo(f.buffer, buffer_size(f))),
                             !.yield_track = Append(@, f.n),
                             !.bytes_written = @ + buffer_size(f),
                             !.buffer = SliceFrom(f.buffer, buffer_size(f)) \o chunk]
                    ELSE flow' = [f EXCEPT !.buffer = @ \o chunk]
    /\ UNCHANGED <<regVars, jobVars, subVars, requests, negotiation, pcm>>

\* A loop that leaves a track before the last chunk of its media stream.
source_exhausted_early(f) == f.source_left <= 1

\* "async for chunk in get_media_stream(...)" has no chunk left.
source_exhausted(f) == f.source_left = 0

\* The media stream is exhausted: "HANDLE END OF TRACK".
end_of_track ==
    /\ flow.pos = "stream"
    /\ source_exhausted(flow)
    /\ LET f == [flow EXCEPT !.pos = "next", !.open = @ \ {flow.n}]
       IN  IF f.bytes_written = 0
             THEN flow' = [f EXCEPT
                      !.seconds_streamed = @ @@ (f.n :> SecondsOf(0))]
             ELSE IF f.buffer # <<>> /\ f.use_crossfade
                    THEN LET remaining_bytes == SliceButLast(f.buffer, crossfade_size(f))
                             bytes_written == f.bytes_written + Len(remaining_bytes)
                         IN  flow' = [f EXCEPT
                                 !.last_fadeout_part = SliceLast(f.buffer, crossfade_size(f)),
                                 !.yielded = Append(@, remaining_bytes),
                                 !.yield_track = Append(@, f.n),
                                 !.bytes_written = bytes_written,
                                 !.seconds_streamed =
                                     @ @@ (f.n :> SecondsOf(bytes_written * pcm_sample_size)),
                                 !.total_bytes_written = @ + bytes_written]
                    ELSE IF f.buffer # <<>>
                           THEN LET bytes_written == f.bytes_written + Len(f.buffer)
                                IN  flow' = [f EXCEPT
                                        !.yielded = Append(@, f.buffer),
                                        !.yield_track = Append(@, f.n),
                                        !.bytes_written = bytes_written,
                                        !.seconds_streamed =
                                            @ @@ (f.n :> SecondsOf(bytes_written * pcm_sample_size)),
                                        !.total_bytes_written = @ + bytes_written]
                           ELSE flow' = [f EXCEPT
                                    !.seconds_streamed =
                                        @ @@ (f.n :> SecondsOf(f.bytes_written * pcm_sample_size)),
                                    !.total_bytes_written = @ + f.bytes_written]
    /\ UNCHANGED <<regVars, jobVars, subVars, requests, negotiation, pcm>>

\* ---------------------------- StreamsController.get_flow_stream, in bytes
\* "pcm_sample_size = int(pcm_format.sample_rate * (pcm_format.bit_depth / 8) * 2)"
pcm_sample_size_of(pcm_format) ==
    (pcm_format.sample_rate * pcm_format.bit_depth * 2) \div 8

\* "crossfade_size = int(pcm_sample_size * crossfade_duration)"
crossfade_size_bytes(p) == pcm_sample_size_of(p.pcm_format) * p.crossfade_duration

\* A buffer that is one byte larger than two seconds when not crossfading.
buffer_size_bytes_odd(p) ==
    IF p.use_crossfade THEN crossfade_size_bytes(p)
                       ELSE pcm_sample_size_of(p.pcm_format) * 2 + 1

\* "buffer_size = crossfade_size if use_crossfade else int(pcm_sample_size * 2)"
buffer_size_bytes(p) ==
    IF p.use_crossfade THEN crossfade_size_bytes(p)
                       ELSE pcm_sample_size_of(p.pcm_format) * 2

\* len(b[:n]), len(b[n:]), len(b[-n:]) and len(b[:-n]) for len(b) = l
len_to(l, n) == Min(n, l)
len_from(l, n) == l - Min(n, l)
len_last(l, n) == IF n = 0 THEN l ELSE Min(n, l)
len_but_last(l, n) == IF n = 0 THEN 0 ELSE l - Min(n, l)

\* len(crossfade_pcm_parts(fade_in_part, fade_out_part, ...)): one window.
crossfade_pcm_parts_len(fade_in_part, fade_out_part) == fade_in_part

\* A queue item: whether get_stream_details finds it and the use_crossfade
\* flag that comes with it.
PcmTracks == [found : BOOLEAN, crossfade : BOOLEAN]

\* The call: "queue_track = start_queue_item", up to "await get_stream_details".
get_flow_stream_bytes(pcm_format, tracks, crossfade_duration) ==
    /\ pcm.pos = "idle"
    /\ pcm' = [NoPcm EXCEPT !.pos = "details", !.pcm_format = pcm_format,
                            !.tracks = tracks,
                            !.crossfade_duration = crossfade_duration,
                            !.n = 1, !.use_crossfade = tracks[1].crossfade]
    /\ UNCHANGED <<regVars, jobVars, subVars, requests, negotiation, flow>>

\* The top of the loop for a later item.
preload_next_url_bytes ==
    /\ pcm.pos = "next"
    /\ IF pcm.n >= Len(pcm.tracks)
         THEN pcm' = [pcm EXCEPT !.pos = "ended", !.yielded = <<>>]
         ELSE pcm' = [pcm EXCEPT !.pos = "details", !.n = @ + 1, !.yielded = <<>>,
                                 !.use_crossfade = pcm.tracks[pcm.n + 1].crossfade]
    /\ UNCHANGED <<regVars, jobVars, subVars, requests, negotiation, flow>>

\* get_stream_details returns, or raises MediaNotFoundError ("continue");
\* then the locals of the track are set.
get_stream_details_bytes ==
    /\ pcm.pos = "details"
    /\ IF pcm.tracks[pcm.n].found
         THEN pcm' = [pcm EXCEPT !.pos = "stream", !.buffer = 0,
                                 !.bytes_written = 0, !.chunk_num = 0]
         ELSE pcm' = [pcm EXCEPT !.pos = "next"]
    /\ UNCHANGED <<regVars, jobVars, subVars, requests, negotiation, flow>>

\* One pass of "async for chunk in get_media_stream(...)" for a chunk of
\* len(chunk) = chunk bytes of which whole tells whether it ends on a frame.
handle_chunk_bytes(chunk, whole) ==
    /\ pcm.pos = "stream"
    /\ LET p == [pcm EXCEPT !.chunk_num = @ + 1, !.aligned = @ /\ whole]
       IN  IF p.last_fadeout_part # 0 /\ p.buffer >= buffer_size_bytes(p)
             THEN LET first_part == p.buffer + chunk
                      fadein_part == len_to(first_part, crossfade_size_bytes(p))
                      remaining_bytes == len_from(first_part, crossfade_size_bytes(p))
                      crossfade_part == crossfade_pcm_parts_len(fadein_part, p.last_fadeout_part)
                  IN  pcm' = [p EXCEPT
                          !.yielded = <<crossfade_part>> \o
                              (IF remaining_bytes # 0 THEN <<remaining_bytes>> ELSE <<>>),
                          !.bytes_written = @ + crossfade_part + remaining_bytes,
                          !.last_fadeout_part = 0,
                          !.buffer = 0]
             ELSE IF p.buffer >= buffer_size_bytes(p) * 2
                    THEN pcm' = [p EXCEPT
                             !.yielded = <<len_to(p.buffer, buffer_size_bytes(p))>>,
                             !.bytes_written = @ + buffer_size_bytes(p),
                             !.buffer = len_from(p.buffer, buffer_size_bytes(p)) + chunk]
                    ELSE pcm' = [p EXCEPT !.yielded = <<>>, !.buffer = @ + chunk]
    /\ UNCHANGED <<regVars, jobVars, subVars, requests, negotiation, flow>>

\* The media stream is exhausted: "HANDLE END OF TRACK".
end_of_track_bytes ==
    /\ pcm.pos = "stream"
    /\ LET p == [pcm EXCEPT !.pos = "next"]
       IN  IF p.bytes_written = 0
             THEN pcm' = [p EXCEPT !.yielded = <<>>]
             ELSE IF p.buffer # 0 /\ p.use_crossfade
                    THEN LET remaining_bytes == len_but_last(p.buffer, crossfade_size_bytes(p))
                         IN  pcm' = [p EXCEPT
                                 !.last_fadeout_part = len_last(p.buffer, crossfade_size_bytes(p)),
                                 !.yielded = <<remaining_bytes>>,
                                 !.bytes_written = @ + remaining_bytes,
                                 !.total_bytes_written = @ + p.bytes_written + remaining_bytes]
                    ELSE IF p.buffer # 0
                           THEN pcm' = [p EXCEPT
                                    !.yielded = <<p.buffer>>,
                                    !.bytes_written = @ + p.buffer,
                                    !.total_bytes_written = @ + p.bytes_written + p.buffer]
                           ELSE pcm' = [p EXCEPT
                                    !.yielded = <<>>,
                                    !.total_bytes_written = @ + p.bytes_written]
    /\ UNCHANGED <<regVars, jobVars, subVars, requests, negotiation, flow>>

\* ------------------------------------------- output format negotiation
RECURSIVE int(_)
\* int(s) for a string of decimal digits
int(s) ==
    IF Len(s) = 0 THEN 0
    ELSE int(SubSeq(s, 1, Len(s) - 1)) * 10
             + ((CHOOSE d \in 1..10 : Digits[d] = s[Len(s)]) - 1)

\* s.find(c) + 1: the position of the first c in s, 0 if there is none
find(s, c) ==
    IF \E i \in DOMAIN s : s[i] = c
      THEN CHOOSE i \in DOMAIN s : s[i] = c /\ \A k \in 1..(i - 1) : s[k] # c
      ELSE 0

RECURSIVE split(_, _)
\* s.split(c)
split(s, c) ==
    IF find(s, c) = 0 THEN <<s>>
    ELSE <<SubSeq(s, 1, find(s, c) - 1)>> \o split(SubSeq(s, find(s, c) + 1, Len(s)), c)

\* s.replace(a, b) for characters a and b
replace(s, a, b) == [i \in DOMAIN s |-> IF s[i] = a THEN b ELSE s[i]]

\* urllib.parse.parse_qsl(qs): the name=value fields between "&"; a field
\* without "=" or with an empty value is left out.
parse_qsl(qs) ==
    LET fields == split(qs, "&")
        pair(field) == <<SubSeq(field, 1, find(field, "=") - 1),
                         SubSeq(field, find(field, "=") + 1, Len(field))>>
        kept == SelectSeq(fields, LAMBDA field :
                    find(field, "=") # 0 /\ find(field, "=") < Len(field))
    IN  [i \in DOMAIN kept |-> pair(kept[i])]

\* dict(pairs).get(key, default): the value of the last pair named key
dict_get(pairs, key, default) ==
    IF \E i \in DOMAIN pairs : pairs[i][1] = key
      THEN LET last == CHOOSE i \in DOMAIN pairs :
                           /\ pairs[i][1] = key
                           /\ \A k \in DOMAIN pairs : pairs[k][1] = key => k <= i
           IN  int(pairs[last][2])
      ELSE default

\* A parser that does not read the parameters.
parse_pcm_info_defaults(content_type) == <<44100, 16, 2>>

\* parse_pcm_info(content_type) -> (sample_rate, sample_size, channels)
parse_pcm_info(content_type) ==
    LET params == IF find(content_type, ";") # 0
                    THEN parse_qsl(replace(content_type, ";", "&"))
                    ELSE <<>>
    IN  <<dict_get(params, <<"r", "a", "t", "e">>, 44100),
          dict_get(params, <<"b", "i", "t", "r", "a", "t", "e">>, 16),
          dict_get(params, <<"c", "h", "a", "n", "n", "e", "l", "s">>, 2)>>

\* ContentType values and their spelling in a URL.
ContentTypes == {"pcm", "s16le", "s24le", "s32le", "f32le", "wav", "flac", "mp3"}
value(content_type) ==
    CASE content_type = "pcm" -> <<"p", "c", "m">>
      [] content_type = "s16le" -> <<"s", "1", "6", "l", "e">>
      [] content_type = "s24le" -> <<"s", "2", "4", "l", "e">>
      [] content_type = "s32le" -> <<"s", "3", "2", "l", "e">>
      [] content_type = "f32le" -> <<"f", "3", "2", "l", "e">>
      [] content_type = "wav" -> <<"w", "a", "v">>
      [] content_type = "flac" -> <<"f", "l", "a", "c">>
      [] content_type = "mp3" -> <<"m", "p", "3">>

\* ContentType.is_pcm()
is_pcm(content_type) == content_type \in {"pcm", "s16le", "s24le", "s32le", "f32le"}

\* ContentType.from_bit_depth(bit_depth)
from_bit_depth(depth) ==
    IF depth = 16 THEN "s16le" ELSE IF depth = 24 THEN "s24le" ELSE "s32le"

\* ContentType.try_parse(string): the codec of "codec[;key=value;...]"
try_parse(string) ==
    LET codec == split(string, ";")[1]
    IN  IF \E c \in ContentTypes : value(c) = codec
          THEN CHOOSE c \in ContentTypes : value(c) = codec
          ELSE "?"

min(a, b) == IF a <= b THEN a ELSE b

\* "32 if player.supports_24bit else 16"
player_max_bit_depth(player) == IF player.supports_24bit THEN 32 ELSE 16

\* Two channels for every player.
channels_stereo(output_channels) == 2

\* 'channels = 1 if output_channels != "stereo" else 2'
channels_of(output_channels) == IF output_channels # "stereo" THEN 1 ELSE 2

\* The suffix both resolve_stream_url append for a PCM codec:
\* f";codec=pcm;rate={output_sample_rate};bitrate={output_bit_depth};channels={channels}"
pcm_suffix(output_sample_rate, output_bit_depth, nchannels) ==
    <<";", "c", "o", "d", "e", "c", "=", "p", "c", "m", ";", "r", "a", "t", "e", "=">> \o str(output_sample_rate)
        \o <<";", "b", "i", "t", "r", "a", "t", "e", "=">> \o str(output_bit_depth)
        \o <<";", "c", "h", "a", "n", "n", "e", "l", "s", "=">> \o str(nchannels)

\* What resolve_stream_url computes for a PCM codec from the format of the
\* source (FLOW_MAX_* in flow mode, the streamdetails' or the job's pcm_format).
computed_format(output_codec, player, source_rate, source_depth) ==
    [content_type |-> output_codec,
     sample_rate |-> min(source_rate, player.max_sample_rate),
     bit_depth |-> min(source_depth, player_max_bit_depth(player)),
     channels |-> channels_of(player.output_channels)]

\* The last path segment of the URL: "{queue_item_id}.{fmt}"
url_segment(queue_item_id, output_codec, player, source_rate, source_depth) ==
    LET c == computed_format(output_codec, player, source_rate, source_depth)
    IN  queue_item_id \o <<".">> \o value(output_codec) \o
            (IF is_pcm(output_codec)
               THEN pcm_suffix(c.sample_rate, c.bit_depth, c.channels)
               ELSE <<>>)

\* request.match_info["fmt"] of the routes ".../{queue_item_id}.{fmt}": the
\* text after the last "." of the segment.
RECURSIVE match_info_fmt(_)
match_info_fmt(segment) ==
    IF find(segment, ".") = 0 THEN segment
    ELSE match_info_fmt(SubSeq(segment, find(segment, ".") + 1, Len(segment)))

\* StreamsController._get_output_format
_get_output_format(output_format_str, queue_player, default_sample_rate, default_bit_depth) ==
    LET content_type == try_parse(output_format_str)
        info == parse_pcm_info(output_format_str)
    IN  IF is_pcm(content_type) \/ content_type = "wav"
          THEN [content_type |-> IF content_type = "pcm"
                                   THEN from_bit_depth(info[2]) ELSE content_type,
                sample_rate |-> info[1],
                bit_depth |-> info[2],
                channels |-> info[3]]
          ELSE [content_type |-> content_type,
                sample_rate |-> min(default_sample_rate, queue_player.max_sample_rate),
                bit_depth |-> min(default_bit_depth, player_max_bit_depth(queue_player)),
                channels |-> channels_of(queue_player.output_channels)]

\* StreamsController.resolve_stream_url(queue_id, queue_item, flow_mode=...)
\* for a player with the given output codec; source_rate and source_depth are
\* the audio_format of the item's streamdetails.
controller_resolve_stream_url(player, output_codec, flow_mode, source_rate, source_depth) ==
    /\ negotiation.pos = "idle"
    /\ LET rate == IF flow_mode THEN FLOW_MAX_SAMPLE_RATE ELSE source_rate
           depth == IF flow_mode THEN FLOW_MAX_BIT_DEPTH ELSE source_depth
       IN  negotiation' = [negotiation EXCEPT
               !.pos = "url", !.minted = TRUE, !.player = player,
               !.url = url_segment(<<"i", "1">>, output_codec, player, rate, depth),
               !.computed = computed_format(output_codec, player, rate, depth)]
    /\ UNCHANGED <<regVars, jobVars, subVars, requests, flow, pcm>>

\* The URL MultiClientStreamJob.resolve_stream_url makes for a child player,
\* from the job's pcm_format.
job_resolve_stream_url(player, output_codec) ==
    /\ negotiation.pos = "idle"
    /\ negotiation' = [negotiation EXCEPT
           !.pos = "url", !.minted = TRUE, !.player = player,
           !.url = url_segment(<<"i", "1">>, output_codec, player, sample_rate, bit_depth),
           !.computed = computed_format(output_codec, player, sample_rate, bit_depth)]
    /\ UNCHANGED <<regVars, jobVars, subVars, requests, flow, pcm>>

\* A client asks for a URL of its own making.
request_url(player, segment) ==
    /\ negotiation.pos = "idle"
    /\ negotiation' = [negotiation EXCEPT
           !.pos = "url", !.player = player, !.url = segment]
    /\ UNCHANGED <<regVars, jobVars, subVars, requests, flow, pcm>>

\* The handler of the request for the URL resolves its output format.
get_output_format(default_sample_rate, default_bit_depth) ==
    /\ negotiation.pos = "url"
    /\ negotiation' = [negotiation EXCEPT
           !.pos = "resolved",
           !.default_sample_rate = default_sample_rate,
           !.default_bit_depth = default_bit_depth,
           !.output_format = _get_output_format(match_info_fmt(negotiation.url),
                                 negotiation.player,
                                 default_sample_rate, default_bit_depth)]
    /\ UNCHANGED <<regVars, jobVars, subVars, requests, flow, pcm>>

\* ------------------------------------------------------------ specification
\* The steps of the producer tasks and of the subscribe() generators.
JobStep ==
    \/ \E j \in JobIds : flow_exhausted(j)
    \/ \E j \in JobIds : flow_error(j)
    \/ \E j \in JobIds : wait_connected(j)
    \/ \E j \in JobIds : wait_timeout(j)
    \/ \E j \in JobIds : put_chunk_done(j)
    \/ \E j \in JobIds : task_cancelled(j)
    \/ \E s \in Subs : queue_put(s)
    \/ \E s \in Subs : queue_get(s)
    \/ \E s \in Subs : client_disconnects(s)
    \/ \E s \in Subs : grace_check(s)

\* One job, of queue "q1", from its creation to its end, with up to MaxSubs
\* subscriptions.
Next ==
    \/ num_jobs < 1 /\ create_multi_client_stream_job("q1")
    \/ \E j \in JobIds : StopJob(j)
    \/ \E j \in JobIds, p \in Players : resolve_stream_url(j, p)
    \/ num_subs < MaxSubs /\ \E j \in JobIds, p \in Players : subscribe(j, p) /\ UNCHANGED <<negotiation, flow, pcm, requests>>
    \/ \E j \in JobIds : chunk_num[j] < MaxChunks /\ flow_next_chunk(j)
    \/ JobStep

Spec == Init /\ [][Next]_vars

\* The event loop runs every callback it has scheduled: a TaskGroup child that
\* is ready takes its step, and a cancellation that was requested is delivered.
Fairness ==
    /\ \A s \in Subs : WF_vars(queue_put(s))
    /\ \A j \in JobIds : WF_vars(task_cancelled(j))

FairSpec == Spec /\ Fairness

\* The registry: up to MaxJobs jobs created for the queues, each replacing
\* the job its queue had, with up to RegSubs subscriptions.
NextRegistry ==
    \/ num_jobs < MaxJobs /\ \E q \in Queues : create_multi_client_stream_job(q)
    \/ \E j \in JobIds : StopJob(j)
    \/ \E j \in JobIds, p \in Players : resolve_stream_url(j, p)
    \/ num_subs < RegSubs /\ \E j \in JobIds, p \in Players : subscribe(j, p) /\ UNCHANGED <<negotiation, flow, pcm, requests>>
    \/ \E j \in JobIds : chunk_num[j] < RegChunks /\ flow_next_chunk(j)
    \/ JobStep

RegistrySpec == Init /\ [][NextRegistry]_vars

Methods == {"GET", "HEAD"}

\* The endpoints: up to MaxReqs requests, each for any queue, job id, player
\* and queue item a URL can name, against a registry in which up to MaxJobs
\* jobs are created.  Subscriptions are made by the requests only.
NextEndpoint ==
    \/ num_jobs < MaxJobs /\ \E q \in Queues : create_multi_client_stream_job(q)
    \/ \E j \in JobIds, p \in Players : resolve_stream_url(j, p)
    \/ \E r \in Reqs, m \in Methods, q \in ReqQueues, id \in ReqJobIds, p \in ReqPlayers :
           serve_multi_subscriber_stream(r, m, q, id, p, FALSE)
    \/ \E r \in Reqs, m \in Methods, q \in ReqQueues, i \in ReqItems, media \in BOOLEAN :
           serve_queue_item_stream(r, m, q, i, media, FALSE)
    \/ \E r \in Reqs, m \in Methods, q \in ReqQueues, i \in ReqItems :
           serve_queue_flow_stream(r, m, q, i, FALSE, TRUE)
    \/ \E r \in Reqs : resp_prepare(r)
    \/ \E r \in Reqs : start_ffmpeg(r)
    \/ \E r \in Reqs : read_audio(r)
    \/ \E j \in JobIds : chunk_num[j] < RegChunks /\ flow_next_chunk(j)
    \/ JobStep

EndpointSpec == Init /\ [][NextEndpoint]_vars

\* The audio chunks written to the body of request r.
ChunksWritten(r) ==
    Len(SelectSeq(requests[r].body, LAMBDA seg : seg.kind = "audio"))

\* Requests to the flow endpoint, with and without ICY, for a lossless and a
\* lossy format, each writing up to MaxBlocks chunks of the transcoder.
NextIcy ==
    \/ num_jobs < 1 /\ create_multi_client_stream_job("q1")
    \/ \E r \in Reqs, m \in Methods, q \in ReqQueues, id \in ReqJobIds, p \in ReqPlayers,
          icy_metadata \in BOOLEAN :
           serve_multi_subscriber_stream(r, m, q, id, p, icy_metadata)
    \/ \E r \in Reqs, m \in Methods, q \in ReqQueues, i \in ReqItems, media \in BOOLEAN,
          icy_metadata \in BOOLEAN :
           serve_queue_item_stream(r, m, q, i, media, icy_metadata)
    \/ \E r \in Reqs, m \in Methods, q \in ReqQueues, i \in ReqItems,
          enable_icy \in BOOLEAN, lossless \in BOOLEAN :
           serve_queue_flow_stream(r, m, q, i, enable_icy, lossless)
    \/ \E r \in Reqs : resp_prepare(r)
    \/ \E r \in Reqs : start_ffmpeg(r)
    \/ \E r \in Reqs : read_audio(r)
    \/ \E r \in Reqs, n \in {1, 8192, 65536, 768000}, current_item \in CurrentItems :
           ChunksWritten(r) < MaxBlocks /\ resp_write(r, n, current_item)
    \/ \E r \in Reqs : resp_done(r)

IcySpec == Init /\ [][NextIcy]_vars

\* Requests to the three endpoints whose feeder writes up to MaxWrites chunks
\* and ends in each of its ways, before or after the handler has returned.
NextPump ==
    \/ num_jobs < 1 /\ create_multi_client_stream_job("q1")
    \/ \E r \in Reqs, m \in Methods, q \in ReqQueues, id \in ReqJobIds, p \in ReqPlayers :
           serve_multi_subscriber_stream(r, m, q, id, p, FALSE)
    \/ \E r \in Reqs, m \in Methods, q \in ReqQueues, i \in ReqItems, media \in BOOLEAN :
           serve_queue_item_stream(r, m, q, i, media, FALSE)
    \/ \E r \in Reqs, m \in Methods, q \in ReqQueues, i \in ReqItems :
           serve_queue_flow_stream(r, m, q, i, FALSE, TRUE)
    \/ \E r \in Reqs : resp_prepare(r)
    \/ \E r \in Reqs : start_ffmpeg(r)
    \/ \E r \in Reqs : read_audio(r)
    \/ \E r \in Reqs, broken_pipe \in BOOLEAN :
           requests[r].stdin_written < MaxWrites /\ read_audio_write(r, broken_pipe)
    \/ \E r \in Reqs : read_audio_exhausted(r)
    \/ \E r \in Reqs : read_audio_error(r)
    \/ \E r \in Reqs : read_audio_cancelled(r)
    \/ \E r \in Reqs : resp_done(r)

PumpSpec == Init /\ [][NextPump]_vars

\* The players, with the sample rates, bit depths and channel settings the
\* format negotiation meets.
SampleRates == {44100, 48000, 96000}
BitDepths == {16, 24, 32}
FormatPlayers ==
    [max_sample_rate : SampleRates, supports_24bit : BOOLEAN,
     output_channels : {"stereo", "mono"}]

\* The URLs a client can ask for itself: any codec, alone or with rate,
\* bitrate and channels.
RequestedUrls ==
    {<<"i", "1">> \o <<".">> \o value(c) : c \in ContentTypes}
    \cup {<<"i", "1">> \o <<".">> \o value(c) \o <<";", "r", "a", "t", "e", "=">> \o str(r) \o <<";", "b", "i", "t", "r", "a", "t", "e", "=">>
               \o str(b) \o <<";", "c", "h", "a", "n", "n", "e", "l", "s", "=">> \o str(n) :
           c \in ContentTypes, r \in SampleRates, b \in BitDepths, n \in {1, 2}}

\* One negotiation: a URL is made by one of the resolve_stream_url or by the
\* client, and the handler of the request resolves its output format.
NextFormat ==
    \/ \E player \in FormatPlayers, output_codec \in ContentTypes, flow_mode \in BOOLEAN,
          r \in SampleRates, b \in BitDepths :
            controller_resolve_stream_url(player, output_codec, flow_mode, r, b)
    \/ \E player \in FormatPlayers, output_codec \in ContentTypes :
            job_resolve_stream_url(player, output_codec)
    \/ \E player \in FormatPlayers, segment \in RequestedUrls :
            request_url(player, segment)
    \/ \E r \in SampleRates, b \in BitDepths : get_output_format(r, b)

FormatSpec == Init /\ [][NextFormat]_vars

\* The queues a flow can go through: the start item and up to MaxTracks - 1
\* items after it.
FlowInputs == UNION {[1..n -> QueueTracks] : n \in 1..MaxTracks}
CrossfadeDurations == {1, 2}
\* seek_position of the request: none, or 5 seconds into the start item
SeekPositions == {0, 5}

\* One get_flow_stream generator, from its call to its end, for every queue
\* of FlowInputs.
NextFlow ==
    \/ \E tracks \in FlowInputs, d \in CrossfadeDurations :
          get_flow_stream(tracks, d, 0, FALSE)
    \/ preload_next_url
    \/ get_stream_details
    \/ handle_chunk
    \/ end_of_track

FlowSpec == Init /\ [][NextFlow]_vars

\* The same generator called with every seek_position and fade_in, over
\* queues of items of up to SeekTrackLen chunks.
SeekInputs ==
    {tracks \in FlowInputs : \A i \in DOMAIN tracks : tracks[i].chunks <= SeekTrackLen}

NextSeek ==
    \/ \E tracks \in SeekInputs, d \in CrossfadeDurations,
          seek_position \in SeekPositions, fade_in \in BOOLEAN :
              get_flow_stream(tracks, d, seek_position, fade_in)
    \/ preload_next_url
    \/ get_stream_details
    \/ handle_chunk
    \/ end_of_track

SeekSpec == Init /\ [][NextSeek]_vars

\* The PCM formats of a flow: "channels=2" with the sample rates and bit
\* depths of the stream details.
PcmFormats ==
    {[content_type |-> from_bit_depth(f[2]), sample_rate |-> f[1], bit_depth |-> f[2], channels |-> 2] :
        f \in {<<44100, 16>>, <<48000, 24>>}}
PcmInputs == UNION {[1..n -> PcmTracks] : n \in 1..MaxTracks}

\* The frame of a PCM format: one sample of every channel.
frame_size(pcm_format) == pcm_format.channels * (pcm_format.bit_depth \div 8)

\* The chunks a media stream delivers: one second, a single frame, a second
\* and a frame, and a second that is cut one byte into a frame.
ChunkLens(pcm_format) ==
    {<<pcm_sample_size_of(pcm_format), TRUE>>,
     <<frame_size(pcm_format), TRUE>>,
     <<pcm_sample_size_of(pcm_format) + frame_size(pcm_format), TRUE>>,
     <<pcm_sample_size_of(pcm_format) + 1, FALSE>>}

\* One get_flow_stream generator counted in bytes, over media streams of up
\* to MaxPcmChunks chunks.
NextPcm ==
    \/ \E pcm_format \in PcmFormats, tracks \in PcmInputs, d \in CrossfadeDurations :
          get_flow_stream_bytes(pcm_format, tracks, d)
    \/ preload_next_url_bytes
    \/ get_stream_details_bytes
    \/ \E c \in ChunkLens(pcm.pcm_format) :
          pcm.chunk_num < MaxPcmChunks /\ handle_chunk_bytes(c[1], c[2])
    \/ end_of_track_bytes

PcmSpec == Init /\ [][NextPcm]_vars

\* ================================================================== claims
InUse(s) == sub_state[s] # "idle"
Contiguous(seq) == \A i \in 1..(Len(seq) - 1) : seq[i + 1] = seq[i] + 1
IsPrefix(a, b) == Len(a) <= Len(b) /\ SubSeq(b, 1, Len(a)) = a
HasEOF(s) == \E i \in DOMAIN sub_queue[s] : sub_queue[s][i] = EOF
RECURSIVE BytesBefore(_)
BytesBefore(k) == IF k <= 1 THEN 0 ELSE BytesBefore(k - 1) + ChunkBytes(k - 1)
\* s is the only subscription its player ever made to its job.
SoleSubscription(s) ==
    \A r \in Subs \ {s} :
        InUse(r) => ~(sub_job[r] = sub_job[s] /\ sub_player[r] = sub_player[s])
\* A subscriber that registered before the event was set and is still registered.
EarlyRegistered(s) == IsRegistered(s) /\ ~late[s]

\* C1: the data chunks a subscribe() generator has yielded are a contiguous
\* run k, k+1, ..., m of the chunks the producer of its job has taken from the
\* flow, in production order: nothing twice, nothing out of order, no gap; a
\* late joiner misses a prefix only.
C1_ContiguousRun ==
    \A s \in Subs :
        /\ Contiguous(received[s])
        /\ \A i \in DOMAIN received[s] :
               received[s][i] \in 1..(chunk_num[sub_job[s]] + 1)

\* A late joiner has yielded two chunks that do not start at the first one.
C1_Witness ==
    \E s \in Subs : late[s] /\ Len(received[s]) >= 2 /\ received[s][1] > 1

\* C2 (as a property a finite run refutes): at the step that makes a job
\* finished, every subscriber registered with it has the empty chunk on its
\* channel.  Nothing puts the empty chunk on a channel of a finished job
\* later, so a subscriber without it waits on its channel forever.
C2_FinishedDeliversEOF ==
    [][\A j \in JobIds :
          (~finished(j) /\ finished(j)') =>
              \A s \in Subs :
                  (IsRegistered(s)' /\ sub_job'[s] = j) => HasEOF(s)']_vars

\* C3 (as a property a finite run refutes): a stop() on a job whose producer
\* task is not done marks the job finished, cancels the producer and leaves
\* the empty chunk on the channel of every registered subscriber, whatever
\* the channel held.
C3_StopUnblocksAll ==
    [][\A j \in JobIds :
          (~_finished[j] /\ _finished'[j] /\ ~TaskDone(j)) =>
              /\ cancel_req'[j]
              /\ \A s \in Subs :
                     (IsRegistered(s) /\ sub_job[s] = j) => HasEOF(s)']_vars

\* C4: a channel never holds more than 2 chunks, and the runner takes the next
\* chunk of the flow (chunk_num grows) only when the chunk it was broadcasting
\* has been put on every channel of the snapshot.
C4_BoundedNoDrop ==
    /\ [](\A s \in Subs : Len(sub_queue[s]) <= QueueMaxSize)
    /\ [][\A j \in JobIds :
             chunk_num'[j] # chunk_num[j] =>
                 \A s \in snapshot[j] :
                     \E i \in DOMAIN EnqueuedData(s) :
                         EnqueuedData(s)[i] = cur_chunk[j]]_vars

\* The producer waits on a full channel.
C4_Witness ==
    \E s \in Subs :
        /\ putter[s] = "blocked"
        /\ Len(sub_queue[s]) = QueueMaxSize
        /\ cur_chunk[sub_job[s]] # EOF

\* C5 (as a property a finite run refutes): the producer never waits to put
\* on the channel of a subscriber that has left while another subscriber is
\* registered.  Nobody reads the channel of a subscriber that has left, so
\* that wait ends only when the producer is cancelled, and the remaining
\* subscribers receive nothing more.
C5_DepartedDoesNotBlock ==
    \A s \in Subs, r \in Subs :
        ~ /\ putter[s] = "blocked"
          /\ sub_state[s] \in {"grace", "ended"}
          /\ sub_job[r] = sub_job[s]
          /\ IsRegistered(r)
          /\ sub_state[r] = "active"

\* C6 (as claimed): for two subscribers of a job that registered before the
\* event was set and are both registered, the data chunks put on the two
\* channels are the same sequence up to one chunk, and the same sequence
\* whenever the producer is not in the middle of a broadcast.
C6_EqualOutsideBroadcast ==
    \A a \in Subs, b \in Subs :
        (EarlyRegistered(a) /\ EarlyRegistered(b) /\ sub_job[a] = sub_job[b]) =>
            /\ IsPrefix(EnqueuedData(a), EnqueuedData(b))
                   \/ IsPrefix(EnqueuedData(b), EnqueuedData(a))
            /\ Len(EnqueuedData(a)) <= Len(EnqueuedData(b)) + 1
            /\ pc[sub_job[a]] # "put" => EnqueuedData(a) = EnqueuedData(b)

\* C6 (amended): ... and the same sequence whenever the producer is neither
\* in the middle of a broadcast nor was cancelled in the middle of one (the
\* snapshot of a broadcast is dropped when the broadcast completes).
C6_EqualOutsideBroadcastUnlessCancelled ==
    \A a \in Subs, b \in Subs :
        (EarlyRegistered(a) /\ EarlyRegistered(b) /\ sub_job[a] = sub_job[b]) =>
            /\ IsPrefix(EnqueuedData(a), EnqueuedData(b))
                   \/ IsPrefix(EnqueuedData(b), EnqueuedData(a))
            /\ Len(EnqueuedData(a)) <= Len(EnqueuedData(b)) + 1
            /\ snapshot[sub_job[a]] = {} => EnqueuedData(a) = EnqueuedData(b)

\* Two early subscribers in the middle of a broadcast: one has the chunk.
C6_Witness ==
    \E a \in Subs, b \in Subs :
        /\ a # b
        /\ EarlyRegistered(a) /\ EarlyRegistered(b) /\ sub_job[a] = sub_job[b]
        /\ Len(EnqueuedData(b)) >= 1
        /\ Len(EnqueuedData(a)) = Len(EnqueuedData(b)) + 1

\* C7: the registry maps a queue to the job created last for it, and every
\* other job created for the queue is finished: at most one job per queue is
\* in the registry and at most one is unfinished.
JobsOf(q) == {j \in 1..num_jobs : job_queue[j] = q}
C7_OneJobPerQueue ==
    \A q \in Queues :
        /\ JobsOf(q) = {} => multi_client_jobs[q] = NoJob
        /\ JobsOf(q) # {} =>
               /\ multi_client_jobs[q] \in JobsOf(q)
               /\ \A j \in JobsOf(q) : j <= multi_client_jobs[q]
               /\ \A j \in JobsOf(q) \ {multi_client_jobs[q]} : finished(j)
        /\ Cardinality({j \in JobsOf(q) : ~finished(j)}) <= 1

\* A job whose producer was still running has been replaced by a new one.
C7_Witness ==
    /\ num_jobs = 2
    /\ job_queue[1] = job_queue[2]
    /\ _finished[1] /\ cancel_req[1]
    /\ ~finished(2)

\* C8 (as claimed): for a late joiner that has received a chunk, the recorded
\* client_seconds_skipped times pcm_sample_size is the summed length of the
\* chunks before its first one.
SkippedBytes(s) ==
    LET v == client_seconds_skipped[sub_job[s]][sub_player[s]]
    IN  v[1] * pcm_sample_size + v[2]
C8_SkippedIsMissed ==
    \A s \in Subs :
        (InUse(s) /\ late[s] /\ SoleSubscription(s) /\ received[s] # <<>>) =>
            SkippedBytes(s) = BytesBefore(received[s][1])

\* C9: a subscribe() step writes client_seconds_skipped[player] exactly when
\* the event is set before the step, with bytes_streamed / pcm_sample_size of
\* that moment, and no other step writes client_seconds_skipped.
C9_SkippedRecordedIffLate ==
    [][IF num_subs' # num_subs
         THEN LET s == num_subs'
                  j == sub_job'[s]
                  p == sub_player'[s]
              IN  IF _all_clients_connected[j]
                    THEN client_seconds_skipped' =
                           [client_seconds_skipped EXCEPT ![j][p] =
                               SecondsOf(bytes_streamed[j])]
                    ELSE client_seconds_skipped' = client_seconds_skipped
         ELSE client_seconds_skipped' = client_seconds_skipped]_vars

\* A late joiner has an entry for bytes already streamed while the subscriber
\* whose registration set the event has none.
C9_Witness ==
    \E s \in Subs, r \in Subs :
        /\ InUse(s) /\ InUse(r) /\ sub_job[s] = sub_job[r]
        /\ late[s] /\ ~late[r]
        /\ client_seconds_skipped[sub_job[s]][sub_player[s]] \notin {NoEntry, <<0, 0>>}
        /\ client_seconds_skipped[sub_job[r]][sub_player[r]] = NoEntry

\* C10 (as claimed): while the event is unset no chunk, the empty one
\* included, has been put on a channel.
C10_NothingEnqueuedWhileUnset ==
    \A s \in Subs :
        (InUse(s) /\ ~_all_clients_connected[sub_job[s]]) =>
            (sub_queue[s] = <<>> /\ received[s] = <<>>)

\* C10 (amended): while the event is unset no data chunk has been put on a
\* channel, and the event is set only by a subscribe() that reaches the
\* expected number of subscribers or by the runner's timeout with a
\* subscriber registered.
C10_NoDataWhileUnset ==
    /\ [](\A s \in Subs :
             (InUse(s) /\ ~_all_clients_connected[sub_job[s]]) =>
                 EnqueuedData(s) = <<>>)
    /\ [][\A j \in JobIds :
             (~_all_clients_connected[j] /\ _all_clients_connected'[j]) =>
                 \/ /\ num_subs' # num_subs
                    /\ NumSubscribed(j)' = Cardinality(expected_players[j])
                 \/ pc[j] = "wait" /\ NumSubscribed(j) >= 1]_vars

\* Chunk 0 has been broadcast after the timeout set the event for a job that
\* expects more players than have connected.
C10_Witness ==
    \E s \in Subs :
        /\ IsRegistered(s)
        /\ EnqueuedData(s) # <<>>
        /\ NumSubscribed(sub_job[s]) < Cardinality(expected_players[sub_job[s]])
        /\ num_subs = 1

\* C11: when the wait for the event ends by the timeout (the event is unset),
\* the runner with no registered subscriber ends at once, without setting the
\* event and without having broadcast a data chunk, and the job is finished;
\* with a subscriber registered it sets the event and broadcasts chunk 0 to
\* the registered subscribers.  Every later broadcast goes to the subscribers
\* registered when it starts, and a job that ended before its first chunk
\* has put no data chunk on any channel.
C11_TimeoutAbortsOrProceeds ==
    /\ [][\A j \in JobIds :
             (pc[j] = "wait" /\ ~_all_clients_connected[j]
                  /\ pc'[j] \notin {"wait", "cancelled"}) =>
                 IF NumSubscribed(j) = 0
                   THEN /\ pc'[j] = "done" /\ finished(j)'
                        /\ ~_all_clients_connected'[j]
                        /\ chunk_num'[j] = 0 /\ bytes_streamed'[j] = 0
                   ELSE /\ _all_clients_connected'[j]
                        /\ pc'[j] = "put" /\ cur_chunk'[j] = 1
                        /\ snapshot'[j] = RegisteredSubs(j)]_vars
    /\ [][\A j \in JobIds :
             (snapshot'[j] # snapshot[j] /\ snapshot'[j] # {}) =>
                 snapshot'[j] = RegisteredSubs(j)]_vars
    /\ [](\A s \in Subs :
             (InUse(s) /\ chunk_num[sub_job[s]] = 0 /\ pc[sub_job[s]] = "done") =>
                 EnqueuedData(s) = <<>>)

\* The timeout let a job start that no player was announced to: its one
\* subscriber has received chunk 0 and the chunk after it.
C11_Witness ==
    \E s \in Subs :
        /\ IsRegistered(s)
        /\ expected_players[sub_job[s]] = {}
        /\ _all_clients_connected[sub_job[s]]
        /\ received[s] = <<1, 2>>

\* C12: the step that ends the 2 s sleep of an exited subscribe() cancels the
\* producer exactly when the subscriber map is empty and the job is not
\* finished, and leaves the producer alone when a subscriber is registered;
\* a producer whose cancellation was requested ends, so the job becomes
\* finished.
C12_GraceCancelsWhenEmpty ==
    /\ [][\A s \in Subs :
             (sub_state[s] = "grace" /\ sub_state'[s] = "ended") =>
                 LET j == sub_job[s]
                 IN  IF NumSubscribed(j) = 0 /\ ~finished(j)
                       THEN cancel_req'[j]
                       ELSE /\ cancel_req' = cancel_req
                            /\ putter' = putter
                            /\ pc' = pc]_vars
    /\ \A j \in JobIds : cancel_req[j] ~> finished(j)

\* The grace timer of the only subscriber has cancelled a producer that was
\* broadcasting, and the cancellation has been delivered.
C12_Witness ==
    \E s \in Subs :
        /\ sub_state[s] = "ended"
        /\ num_subs = 1
        /\ ~_finished[sub_job[s]]
        /\ pc[sub_job[s]] = "cancelled"
        /\ chunk_num[sub_job[s]] >= 1

\* C13: a job is in exactly one of the states pending, running and finished,
\* and no step takes it backwards: a finished job stays finished and a
\* running job does not become pending.
C13_StateMonotonic ==
    /\ [](\A j \in JobIds :
             /\ pending(j) \/ running(j) \/ finished(j)
             /\ ~(pending(j) /\ running(j))
             /\ ~(pending(j) /\ finished(j))
             /\ ~(running(j) /\ finished(j)))
    /\ [][\A j \in JobIds :
             /\ finished(j) => finished(j)'
             /\ running(j) => ~pending(j)']_vars

\* A job that was stopped while it was broadcasting to a subscriber that is
\* still in its read loop: the event is set and the job is finished.
C13_Witness ==
    \E s \in Subs :
        /\ sub_state[s] = "active" /\ IsRegistered(s)
        /\ _finished[sub_job[s]]
        /\ pc[sub_job[s]] = "cancelled"
        /\ _all_clients_connected[sub_job[s]]
        /\ chunk_num[sub_job[s]] >= 1

\* s is the subscription its player made last to its job.
LatestSubscription(s) ==
    \A r \in Subs :
        (InUse(r) /\ sub_job[r] = sub_job[s] /\ sub_player[r] = sub_player[s]) =>
            r <= s

\* C14 (as claimed): the subscription a player made last stays registered,
\* its channel in the subscriber map, for as long as its own subscribe() has
\* not exited, whatever an earlier subscription of the same player does.
\* A subscription that is not in the map of a running job is in no broadcast
\* and receives nothing more.
C14_DuplicateStaysRegistered ==
    \A s \in Subs :
        (sub_state[s] = "active" /\ LatestSubscription(s) /\ ~finished(sub_job[s])) =>
            IsRegistered(s)

\* C15 (as a property a finite run refutes): when the producer task ends
\* after the flow was exhausted, that is after it started to broadcast the
\* empty chunk, every subscriber that was registered at the start of that
\* broadcast and is still in its read loop has the empty chunk on its
\* channel.  Nothing is put on the channels of a job whose task has ended, so
\* a subscriber without it reads the data chunks left on its channel and then
\* waits forever.
C15_ExhaustionDeliversEOF ==
    [][\A j \in JobIds :
          (pc[j] = "put" /\ cur_chunk[j] = EOF /\ TaskDone(j)') =>
              \A s \in snapshot[j] :
                  (sub_state'[s] = "active" /\ IsRegistered(s)') => HasEOF(s)']_vars

\* The request r arrives at the endpoint in this step.
Arrives(r, endpoint) ==
    requests[r].pos = "idle" /\ requests'[r].endpoint = endpoint

\* C16: a request to the multi endpoint is answered 404, and registers
\* nothing, exactly when the registry has no job for its queue_id, or the job
\* of the queue has another job_id than the URL (as has every URL of a job
\* that was replaced), or its player is unknown; and every subscription is
\* made by a request that passed the three lookups for the job it subscribes
\* to.
C16_NotFoundRegistersNothing ==
    /\ [][\A r \in Reqs :
             Arrives(r, "multi") =>
                 LET req == requests'[r]
                     job == registry_get(req.queue_id)
                 IN  /\ (job = NoJob \/ req.job_id # job \/ req.player_id \notin Players)
                            <=> (req.pos = "not_found" /\ req.status = 404)
                     /\ req.pos # "not_found" =>
                            (req.pos = "format" /\ req.streamjob = job)
                     /\ UNCHANGED <<regVars, jobVars, subVars>>]_vars
    /\ [](\A r \in Reqs :
             (requests[r].endpoint = "multi" /\ requests[r].pos = "not_found") =>
                 ~requests[r].source)
    /\ [][num_subs' # num_subs =>
             \E r \in Reqs :
                 /\ requests[r].endpoint = "multi" /\ requests[r].status = 200
                 /\ ~requests[r].source /\ requests'[r].source
                 /\ sub_job'[num_subs'] = requests[r].job_id
                 /\ sub_player'[num_subs'] = requests[r].player_id
                 /\ requests[r].player_id \in Players
                 /\ job_queue[requests[r].job_id] = requests[r].queue_id]_vars

\* The URL of a job that has been replaced is answered 404 while the job that
\* replaced it is in the registry.
C16_Witness ==
    \E r \in Reqs :
        /\ requests[r].endpoint = "multi" /\ requests[r].status = 404
        /\ requests[r].job_id = 1 /\ requests[r].player_id \in Players
        /\ requests[r].queue_id \in Queues
        /\ job_queue[1] = requests[r].queue_id
        /\ multi_client_jobs[requests[r].queue_id] = 2
        /\ num_subs = 0

\* What a request names is missing: its queue or its queue item on the single
\* and the flow endpoint; the job of its queue, the job of its job_id or its
\* player on the multi endpoint.
NamesMissing(req) ==
    IF req.endpoint = "multi"
      THEN \/ registry_get(req.queue_id) = NoJob
           \/ req.job_id # registry_get(req.queue_id)
           \/ req.player_id \notin Players
      ELSE \/ req.queue_id \notin Queues
           \/ req.queue_item_id \notin QueueItems

C18_HeadChangesNothing ==
    /\ [][\A r \in Reqs :
             (requests'[r] # requests[r] /\ requests'[r].method = "HEAD") =>
                 UNCHANGED <<regVars, jobVars, subVars>>]_vars
    /\ [](\A r \in Reqs :
             (requests[r].pos # "idle" /\ requests[r].method = "HEAD") =>
                 /\ requests[r].pos \in {"not_found", "format", "returned"}
                 /\ ~requests[r].ffmpeg_proc
                 /\ ~requests[r].source
                 /\ requests[r].pos = "returned" =>
                        (requests[r].headers_sent /\ requests[r].status = 200))
    /\ [][\A r \in Reqs :
             requests[r].pos = "returned" => requests'[r] = requests[r]]_vars

\* A HEAD request to the multi endpoint has returned for a job that waits for
\* the player of the request.
C18_Witness ==
    \E r \in Reqs :
        /\ requests[r].endpoint = "multi" /\ requests[r].method = "HEAD"
        /\ requests[r].pos = "returned"
        /\ requests[r].player_id \in expected_players[requests[r].streamjob]
        /\ pc[requests[r].streamjob] = "wait"
        /\ NumSubscribed(requests[r].streamjob) = 0

\* The seconds of PCM in a sequence of yielded parts.
RECURSIVE PartsLen(_)
PartsLen(parts) ==
    IF parts = <<>> THEN 0 ELSE Len(Head(parts)) + PartsLen(Tail(parts))

RECURSIVE SourceLen(_)
SourceLen(tracks) ==
    IF tracks = <<>> THEN 0 ELSE Head(tracks).chunks + SourceLen(Tail(tracks))

\* A finished flow in which every item is found, comes with use_crossfade and
\* is long enough for its buffer to fill (so every transition is crossfaded),
\* with at least one transition.
AllCrossfaded(f) ==
    /\ f.pos = "ended"
    /\ Len(f.tracks) >= 2
    /\ \A i \in 1..Len(f.tracks) :
          /\ f.tracks[i].found
          /\ f.tracks[i].crossfade
          /\ f.tracks[i].chunks > 3 * f.crossfade_duration

\* C19: in a flow stream whose every transition uses crossfade, the bytes
\* emitted are the bytes the sources produced minus crossfade_size for each
\* transition; two 10-second tracks with crossfade_duration 2 emit
\* (20 - 2) * 48000 * 3 * 2 bytes.
C19_CrossfadeByteTotal ==
    /\ AllCrossfaded(flow) =>
          PartsLen(flow.yielded) * pcm_sample_size =
              (SourceLen(flow.tracks)
                  - crossfade_size(flow) * (Len(flow.tracks) - 1)) * pcm_sample_size
    /\ ( /\ AllCrossfaded(flow)
         /\ Len(flow.tracks) = 2
         /\ flow.tracks[1].chunks = 10 /\ flow.tracks[2].chunks = 10
         /\ flow.crossfade_duration = 2 )
       => PartsLen(flow.yielded) * pcm_sample_size = (20 - 2) * 48000 * 3 * 2

\* C20: get_flow_stream ends exactly when preload_next_url raises QueueEmpty:
\* it ends only at a preload with no next item, a preload with no next item
\* always ends it, no other step ends it, and an ended flow yields nothing.
C20_EndsExactlyAtQueueEmpty ==
    [][ /\ (flow.pos # "ended" /\ flow'.pos = "ended")
            => (flow.pos = "next" /\ flow.n = Len(flow.tracks))
        /\ (flow.pos = "next" /\ flow.n = Len(flow.tracks) /\ flow' # flow)
            => (flow'.pos = "ended" /\ flow'.yielded = flow.yielded)
        /\ (flow.pos = "next" /\ flow.n < Len(flow.tracks) /\ flow' # flow)
            => (flow'.pos = "details" /\ flow'.n = flow.n + 1)
        /\ flow.pos = "ended" => flow' = flow ]_vars

\* A flow over two items that ended at QueueEmpty although its last item
\* streamed nothing, after the first item was yielded.
C20_Witness ==
    /\ flow.pos = "ended"
    /\ Len(flow.tracks) = 2
    /\ flow.n = 2
    /\ flow.yielded # <<>>
    /\ flow.bytes_written = 0

\* The seconds yielded while item i was in work.
YieldedFor(f, i) ==
    PartsLen(SelectSeq([k \in DOMAIN f.yielded |->
                           IF f.yield_track[k] = i THEN f.yielded[k] ELSE <<>>],
                       LAMBDA part : part # <<>>))

\* C21: when get_stream_details raises MediaNotFoundError for an item of the
\* flow, get_flow_stream yields nothing for that item and does not end: the
\* step that meets the error yields nothing, keeps the fade-out part of the
\* track before and leads to the next preload_next_url, which goes on with
\* the item it returns; no audio of such an item is ever yielded.
C21_MediaNotFoundSkipsItem ==
    [][ /\ (flow.pos = "details" /\ ~flow.tracks[flow.n].found /\ flow' # flow)
            => /\ flow'.pos = "next"
               /\ flow'.yielded = flow.yielded
               /\ flow'.last_fadeout_part = flow.last_fadeout_part
               /\ flow'.n = flow.n
        /\ (flow.pos = "next" /\ ~flow.tracks[flow.n].found
              /\ flow.n < Len(flow.tracks) /\ flow' # flow)
            => /\ flow'.pos = "details"
               /\ flow'.n = flow.n + 1
               /\ flow'.yielded = flow.yielded
        /\ \A i \in DOMAIN flow'.tracks :
              ~flow'.tracks[i].found =>
                  /\ YieldedFor(flow', i) = 0
                  /\ i \notin flow'.open
                  /\ i \notin DOMAIN flow'.opened ]_vars

\* The start item was not found and the item after it was streamed.
C21_Witness ==
    /\ flow.pos = "ended"
    /\ Len(flow.tracks) = 2
    /\ ~flow.tracks[1].found
    /\ flow.tracks[2].found
    /\ YieldedFor(flow, 2) > 0
    /\ PartsLen(flow.yielded) = YieldedFor(flow, 2)

\* A body that is a repetition of M audio bytes, one length byte L and
\* L * 16 metadata bytes that start with StreamTitle='.
IcyFramed(body, M) ==
    /\ Len(body) % 3 = 0
    /\ \A k \in 0..((Len(body) \div 3) - 1) :
          LET audio == body[3 * k + 1]
              length == body[3 * k + 2]
              metadata == body[3 * k + 3]
          IN  /\ audio.kind = "audio" /\ audio.len = M
              /\ length.kind = "length" /\ Len(length.bytes) = 1
              /\ metadata.kind = "metadata"
              /\ metadata.len = length.bytes[1] * 16
              /\ metadata.prefix = "StreamTitle='"

\* C22: with ICY enabled on the flow endpoint the body is a repetition of
\* exactly M audio bytes, one length byte L and exactly L * 16 metadata bytes
\* (payload starting with StreamTitle='), M = 65536 for lossless output and
\* 8192 otherwise; without ICY the body holds audio bytes only.
C22_IcyFraming ==
    \A r \in Reqs :
        requests[r].endpoint = "flow" =>
            IF requests[r].enable_icy
              THEN IcyFramed(requests[r].body,
                             IF requests[r].lossless THEN 65536 ELSE 8192)
              ELSE \A k \in DOMAIN requests[r].body :
                       requests[r].body[k].kind = "audio"

\* C23: for every format string and every player the AudioFormat resolved by
\* _get_output_format stays within the player's caps: sample_rate at most
\* max_sample_rate and bit_depth at most 32 with supports_24bit, else 16; the
\* fmt pcm;rate=96000;bitrate=24;channels=2 for a player of 48000 with
\* supports_24bit resolves to 48000/24/2.
C23_ClampedToPlayerCaps ==
    negotiation.pos = "resolved" =>
        /\ negotiation.output_format.sample_rate <= negotiation.player.max_sample_rate
        /\ negotiation.output_format.bit_depth <= player_max_bit_depth(negotiation.player)
        /\ ( /\ match_info_fmt(negotiation.url) = <<"p", "c", "m", ";", "r", "a", "t", "e", "=", "9", "6", "0", "0", "0", ";", "b", "i", "t", "r", "a", "t", "e", "=", "2", "4", ";", "c", "h", "a", "n", "n", "e", "l", "s", "=", "2">>
             /\ negotiation.player.max_sample_rate = 48000
             /\ negotiation.player.supports_24bit )
           => /\ negotiation.output_format.sample_rate = 48000
              /\ negotiation.output_format.bit_depth = 24
              /\ negotiation.output_format.channels = 2

\* C24: the format suffix that either resolve_stream_url makes for a PCM
\* output codec, parsed by _get_output_format, gives the sample rate, bit
\* depth and channel count that resolve_stream_url computed.
C24_PcmFormatRoundTrip ==
    ( /\ negotiation.pos = "resolved"
      /\ negotiation.minted
      /\ is_pcm(negotiation.computed.content_type) )
    => /\ negotiation.output_format.sample_rate = negotiation.computed.sample_rate
       /\ negotiation.output_format.bit_depth = negotiation.computed.bit_depth
       /\ negotiation.output_format.channels = negotiation.computed.channels

\* A mono 48000/24 PCM URL was made and parsed back.
C24_Witness ==
    /\ negotiation.pos = "resolved"
    /\ negotiation.minted
    /\ is_pcm(negotiation.computed.content_type)
    /\ negotiation.output_format.sample_rate = 48000
    /\ negotiation.output_format.bit_depth = 24
    /\ negotiation.output_format.channels = 1


\* C25: once a job is finished (stop() was called, the grace timer cancelled
\* the producer or the producer task ended) no further non-empty chunk is
\* enqueued to a subscriber channel of the job, bytes_streamed no longer
\* changes, and a producer task that has ended is never restarted.
C25_FinishedJobIsQuiet ==
    [][\A j \in JobIds :
          (j <= num_jobs /\ finished(j)) =>
              /\ \A s \in Subs :
                    (sub_job[s] = j /\ InUse(s)) =>
                        ~( /\ Len(sub_queue'[s]) = Len(sub_queue[s]) + 1
                           /\ IsData(sub_queue'[s][Len(sub_queue'[s])]) )
              /\ bytes_streamed'[j] = bytes_streamed[j]
              /\ TaskDone(j) => pc'[j] = pc[j]
              /\ finished(j)' ]_vars

\* The numbers of the data chunks enqueued so far to the channel of s.
EnqueuedSet(s) == {EnqueuedData(s)[i] : i \in DOMAIN EnqueuedData(s)}

\* C26: bytes_streamed never decreases; in every state it is the summed
\* length of the chunks whose broadcast has completed (chunk_num of them), so
\* also whenever the producer is not in the middle of a broadcast; and it is
\* increased, by the length of the chunk, only after the chunk was enqueued to
\* every channel of the snapshot of the broadcast.
C26_BytesStreamedCountsBroadcasts ==
    [][\A j \in JobIds :
          /\ bytes_streamed'[j] >= bytes_streamed[j]
          /\ bytes_streamed[j] = BytesBefore(chunk_num[j] + 1)
          /\ bytes_streamed'[j] # bytes_streamed[j] =>
                /\ bytes_streamed'[j] = bytes_streamed[j] + ChunkBytes(cur_chunk'[j])
                /\ chunk_num'[j] = chunk_num[j] + 1
                /\ cur_chunk'[j] = chunk_num'[j]
                /\ \A s \in snapshot[j] :
                      /\ putter'[s] = "none"
                      /\ cur_chunk'[j] \in EnqueuedSet(s)' ]_vars

\* The second chunk is in the middle of its broadcast to two subscribers: one
\* channel has it, bytes_streamed counts the first chunk only.
C26_Witness ==
    \E a \in Subs, b \in Subs :
        /\ a # b /\ sub_job[a] = 1 /\ sub_job[b] = 1
        /\ snapshot[1] = {a, b}
        /\ pc[1] = "put" /\ cur_chunk[1] = 2
        /\ 2 \in EnqueuedSet(a) /\ 2 \notin EnqueuedSet(b)
        /\ bytes_streamed[1] = ChunkBytes(1)

\* C27 (as claimed): a job reports running only after its first chunk was
\* broadcast (or while it is being broadcast); as long as no chunk has been
\* broadcast it reports pending or finished.
C27_RunningAfterFirstBroadcast ==
    \A j \in JobIds :
        (j <= num_jobs /\ running(j)) =>
            chunk_num[j] >= 1 \/ (pc[j] = "put" /\ cur_chunk[j] = 1)

\* C27 (amended): a job leaves the pending state when all_clients_connected
\* is set, which is before its first chunk is broadcast: while a job reports
\* pending no data chunk has been broadcast or enqueued and none is being
\* broadcast, and the step that makes it running has not enqueued a chunk yet.
C27_PendingUntilAllConnected ==
    /\ [](\A j \in JobIds :
             (j <= num_jobs /\ pending(j)) =>
                 /\ chunk_num[j] = 0
                 /\ bytes_streamed[j] = 0
                 /\ ~(pc[j] = "put" /\ cur_chunk[j] # EOF)
                 /\ \A s \in Subs : (sub_job[s] = j /\ InUse(s)) => EnqueuedData(s) = <<>>)
    /\ [][\A j \in JobIds :
             (j <= num_jobs /\ pending(j) /\ running(j)') =>
                 /\ chunk_num'[j] = 0
                 /\ \A s \in Subs :
                       (sub_job'[s] = j /\ InUse(s)') => EnqueuedData(s)' = <<>>]_vars

\* A job reports running while its producer has not got a first chunk from
\* the flow stream yet.
C27_Witness ==
    \E j \in JobIds :
        /\ j <= num_jobs
        /\ running(j)
        /\ pc[j] = "pull"
        /\ chunk_num[j] = 0
        /\ NumSubscribed(j) >= 1

\* The bytes that a recorded seconds_streamed stands for.
BytesOf(seconds) == seconds[1] * pcm_sample_size + seconds[2]

\* C28: for every track the flow generator streams, the recorded
\* seconds_streamed times pcm_sample_size is the number of bytes yielded while
\* that track was in work (crossfaded part, its tail, the slices and the
\* remainder at the end of the track), 0 when nothing was yielded; a value is
\* recorded for every track whose media stream has ended.
C28_SecondsStreamedIsYielded ==
    /\ \A i \in DOMAIN flow.seconds_streamed :
          BytesOf(flow.seconds_streamed[i]) = YieldedFor(flow, i) * pcm_sample_size
    /\ \A i \in DOMAIN flow.tracks :
          (i \in DOMAIN flow.opened /\ i \notin flow.open) =>
              i \in DOMAIN flow.seconds_streamed

\* Two crossfaded tracks were streamed, and the seconds_streamed of the second
\* one counts the crossfaded part.
C28_Witness ==
    /\ flow.pos = "ended"
    /\ DOMAIN flow.seconds_streamed = {1, 2}
    /\ flow.tracks[1].crossfade /\ flow.tracks[2].crossfade
    /\ \E k \in DOMAIN flow.yielded :
          /\ flow.yield_track[k] = 2
          /\ flow.yielded[k] # <<>>
          /\ flow.yielded[k][1][1] = 0
    /\ BytesOf(flow.seconds_streamed[1]) > 0
    /\ BytesOf(flow.seconds_streamed[2]) > BytesOf(flow.seconds_streamed[1])

\* The arguments get_flow_stream was called with: those of its first step.
CalledWith(f) == <<f.seek_position, f.fade_in>>

\* C29: seek_position and fade_in apply to the start item only: its media
\* stream is opened with the seek_position and fade_in of the call and its
\* seconds_skipped is the seek_position; every later item, also when the
\* start item was skipped, is opened with seek_position 0 and fade_in false
\* and gets seconds_skipped 0.
C29_SeekAndFadeInFirstItemOnly ==
    /\ [](\A i \in DOMAIN flow.opened :
             /\ i \in DOMAIN flow.seconds_skipped
             /\ flow.seconds_skipped[i] = flow.opened[i][1]
             /\ i > 1 => flow.opened[i] = <<0, FALSE>>)
    /\ [][ /\ (flow.pos = "details" /\ flow.n = 1 /\ flow'.pos = "stream")
               => /\ flow'.opened[1] = CalledWith(flow)
                  /\ flow'.seconds_skipped[1] = flow.seek_position
           /\ (flow.pos = "idle" /\ flow'.pos # "idle")
               => \E seek_position \in SeekPositions, fade_in \in BOOLEAN :
                     CalledWith(flow') = <<seek_position, fade_in>>
           /\ (flow.n = 1 /\ flow.pos \in {"details", "stream"})
               => CalledWith(flow') = CalledWith(flow) ]_vars

\* A flow called with a seek position and fade-in skipped its start item and
\* streamed the second item from its beginning.
C29_Witness ==
    /\ flow.pos = "ended"
    /\ Len(flow.tracks) = 2
    /\ ~flow.tracks[1].found
    /\ DOMAIN flow.opened = {2}
    /\ flow.opened[2] = <<0, FALSE>>
    /\ flow.seconds_skipped[2] = 0
    /\ PartsLen(flow.yielded) > 0

\* C30: the flow generator is lazy in track order: at most one media stream
\* is open at a time, the next item is asked for (preload_next_url) and
\* resolved (get_stream_details) only after the media stream of the item in
\* work is exhausted and its end-of-track output was yielded, and what is
\* yielded always belongs to the item in work.
C30_LazyInTrackOrder ==
    /\ [](/\ Cardinality(flow.open) <= 1
          /\ flow.open \subseteq {flow.n}
          /\ flow.pos \in {"next", "details", "ended"} => flow.open = {})
    /\ [][ /\ (flow.pos # "idle" /\ flow'.n # flow.n)
               => /\ flow.pos = "next"
                  /\ flow'.n = flow.n + 1
                  /\ flow.open = {}
                  /\ flow.source_left = 0
                  /\ flow.n \in DOMAIN flow.opened => flow.n \in DOMAIN flow.seconds_streamed
           /\ (DOMAIN flow'.opened # DOMAIN flow.opened)
               => /\ flow.pos = "details"
                  /\ DOMAIN flow'.opened = DOMAIN flow.opened \cup {flow.n}
                  /\ \A i \in DOMAIN flow.opened :
                        i < flow.n /\ i \in DOMAIN flow.seconds_streamed
           /\ IsPrefix(flow.yield_track, flow'.yield_track)
           /\ \A k \in DOMAIN flow'.yield_track :
                 k > Len(flow.yield_track) =>
                     /\ flow'.yield_track[k] = flow.n
                     /\ flow.n \in flow.open ]_vars

\* The second item is being streamed after the first one was streamed to its
\* end: its media stream is the only one open.
C30_Witness ==
    /\ flow.pos = "stream"
    /\ flow.n = 2
    /\ flow.open = {2}
    /\ DOMAIN flow.opened = {1, 2}
    /\ YieldedFor(flow, 1) > 0
    /\ YieldedFor(flow, 2) > 0

\* C31: pcm_sample_size is sample_rate x (bit_depth / 8) x 2, crossfade_size
\* and buffer_size are whole multiples of it, and as long as every chunk the
\* media streams delivered was a whole number of frames, every part
\* get_flow_stream yields is a whole number of frames
\* (a frame is channels x (bit_depth / 8) bytes).
C31_FrameMultiples ==
    pcm.pos # "idle" =>
        LET pcm_format == pcm.pcm_format
            size == pcm_sample_size_of(pcm_format)
        IN  /\ size = pcm_format.sample_rate * (pcm_format.bit_depth \div 8) * 2
            /\ crossfade_size_bytes(pcm) % size = 0
            /\ buffer_size_bytes(pcm) % size = 0
            /\ pcm.aligned =>
                 \A i \in DOMAIN pcm.yielded :
                     pcm.yielded[i] % frame_size(pcm_format) = 0

\* A crossfade at a track boundary has yielded the crossfaded window and a
\* rest that is not a whole number of seconds, from chunks of whole frames.
C31_Witness ==
    /\ pcm.aligned
    /\ pcm.n = 2
    /\ Len(pcm.yielded) = 2
    /\ pcm.yielded[1] = crossfade_size_bytes(pcm)
    /\ pcm.yielded[2] % pcm_sample_size_of(pcm.pcm_format) # 0

\* C32: a response of the flow endpoint carries the header icy-metaint
\* exactly when the request came with Icy-MetaData: 1, and its value is
\* 65536 for a lossless output format and 8192 otherwise; a response of the
\* single or the multi endpoint never carries icy-metaint and its body is
\* audio only, whatever the request's headers.
C32_IcyMetaintHeader ==
    \A r \in Reqs :
        LET req == requests[r]
        IN  /\ req.headers_sent =>
                 /\ "icy-metaint" \in DOMAIN req.headers
                      <=> (req.endpoint = "flow" /\ req.icy_metadata)
                 /\ "icy-metaint" \in DOMAIN req.headers =>
                      req.headers["icy-metaint"] =
                          IF req.lossless THEN <<"6", "5", "5", "3", "6">>
                                          ELSE <<"8", "1", "9", "2">>
            /\ req.endpoint \in {"single", "multi"} =>
                 \A k \in DOMAIN req.body : req.body[k].kind = "audio"

\* A request with Icy-MetaData: 1 was answered with icy-metaint: 8192 on the
\* flow endpoint and has received a block of audio and metadata.
C32_Witness ==
    \E r \in Reqs :
        /\ requests[r].endpoint = "flow"
        /\ requests[r].icy_metadata
        /\ ~requests[r].lossless
        /\ requests[r].headers_sent
        /\ "icy-metaint" \in DOMAIN requests[r].headers
        /\ requests[r].headers["icy-metaint"] = <<"8", "1", "9", "2">>
        /\ Len(requests[r].body) = 3

\* C33: every ICY metadata block starts with exactly one length byte, whose
\* value L is in 0..255 and is the length of the padded metadata divided by
\* 16, for every title; the padded length is the smallest multiple of 16 that
\* is at least the length of StreamTitle='<title>';.
C33_OneLengthByte ==
    \A r \in Reqs :
        \A k \in DOMAIN requests[r].body :
            requests[r].body[k].kind = "metadata" =>
                LET length == requests[r].body[k - 1]
                    metadata == requests[r].body[k]
                IN  /\ length.kind = "length"
                    /\ Len(length.bytes) = 1
                    /\ length.bytes[1] \in 0..255
                    /\ length.bytes[1] * 16 = metadata.len
                    /\ metadata.len % 16 = 0
                    /\ metadata.len >= metadata.unpadded
                    /\ metadata.len - 16 < metadata.unpadded

\* The format string "<codec>;rate=<r>;bitrate=<b>;channels=<n>".
FmtWith(c, r, b, n) ==
    value(c) \o <<";", "r", "a", "t", "e", "=">> \o str(r)
        \o <<";", "b", "i", "t", "r", "a", "t", "e", "=">> \o str(b)
        \o <<";", "c", "h", "a", "n", "n", "e", "l", "s", "=">> \o str(n)

PcmOrWav == {"pcm", "s16le", "s24le", "s32le", "f32le", "wav"}

\* What the claim says a PCM or WAV string with the values r, b, n gives.
FromString(c, r, b, n) ==
    [content_type |-> IF c # "pcm" THEN c
                      ELSE IF b = 16 THEN "s16le"
                      ELSE IF b = 24 THEN "s24le" ELSE "s32le",
     sample_rate |-> r, bit_depth |-> b, channels |-> n]

\* What the claim says any other codec gives for the player and the defaults.
FromPlayer(c, neg) ==
    [content_type |-> c,
     sample_rate |-> IF neg.default_sample_rate <= neg.player.max_sample_rate
                       THEN neg.default_sample_rate ELSE neg.player.max_sample_rate,
     bit_depth |-> LET cap == IF neg.player.supports_24bit THEN 32 ELSE 16
                   IN  IF neg.default_bit_depth <= cap THEN neg.default_bit_depth ELSE cap,
     channels |-> IF neg.player.output_channels = "stereo" THEN 2 ELSE 1]

\* C34: _get_output_format has two branches.  For a format string of a PCM
\* type or WAV, sample rate, bit depth and channels are the rate, bitrate and
\* channels parameters of the string (44100, 16 and 2 without them) and the
\* generic type pcm becomes the type of the bit depth.  For any other codec
\* sample_rate = min(default_sample_rate, player.max_sample_rate),
\* bit_depth = min(default_bit_depth, 32 if supports_24bit else 16) and
\* channels = 2 if the player's output_channels is stereo, else 1.
C34_TwoBranches ==
    negotiation.pos = "resolved" =>
        LET fmt == match_info_fmt(negotiation.url)
        IN  \A c \in ContentTypes :
              /\ fmt = value(c) =>
                   negotiation.output_format =
                       IF c \in PcmOrWav THEN FromString(c, 44100, 16, 2)
                                         ELSE FromPlayer(c, negotiation)
              /\ \A r \in SampleRates, b \in BitDepths, n \in {1, 2} :
                   fmt = FmtWith(c, r, b, n) =>
                       negotiation.output_format =
                           IF c \in PcmOrWav THEN FromString(c, r, b, n)
                                             ELSE FromPlayer(c, negotiation)

\* flac;rate=96000;bitrate=32;channels=2 was resolved for a mono player of
\* 48000 without 24 bit support against defaults of 96000/24: 48000/16/1.
C34_Witness ==
    /\ negotiation.pos = "resolved"
    /\ match_info_fmt(negotiation.url) = FmtWith("flac", 96000, 32, 2)
    /\ negotiation.player.max_sample_rate = 48000
    /\ ~negotiation.player.supports_24bit
    /\ negotiation.player.output_channels = "mono"
    /\ negotiation.default_sample_rate = 96000
    /\ negotiation.default_bit_depth = 24
    /\ negotiation.output_format =
           [content_type |-> "flac", sample_rate |-> 48000, bit_depth |-> 16, channels |-> 1]

\* C35: on all three endpoints the task read_audio() calls
\* ffmpeg_proc.write_eof() exactly once on every way it ends: the source is
\* exhausted, the source raises, the task is cancelled, or a write raises
\* BrokenPipeError, after which it writes no further chunk and ends without
\* an exception; as long as it runs it has not closed stdin.
C35_StdinClosedOnce ==
    /\ [](\A r \in Reqs :
            /\ requests[r].pump \in {"done", "error", "cancelled"}
                 => requests[r].stdin_eof = 1
            /\ requests[r].pump \in {"none", "running"}
                 => requests[r].stdin_eof = 0
            /\ requests[r].broken => requests[r].pump = "done")
    /\ [][\A r \in Reqs :
            requests[r].broken =>
                requests'[r].stdin_written = requests[r].stdin_written]_vars

\* On the multi endpoint a write raised BrokenPipeError after a chunk was
\* written, and stdin was closed.
C35_Witness ==
    \E r \in Reqs :
        /\ requests[r].endpoint = "multi"
        /\ requests[r].broken
        /\ requests[r].stdin_written = 1
        /\ requests[r].pump = "done"
        /\ requests[r].stdin_eof = 1

\* The players that have a channel in the subscribed_players of job j.
SubscribedPlayers(j, subscribed) == {p \in Players : subscribed[j][p] # NoSub}

\* C36: unless the timeout of the runner fired, _all_clients_connected is set
\* only in a state in which every player of expected_players is registered
\* as a subscriber (the runner sets the event itself only on the timeout, in
\* the step in which it leaves its wait).
C36_SetOnlyWhenAllExpected ==
    [][\A j \in JobIds :
          ( /\ ~_all_clients_connected[j]
            /\ _all_clients_connected'[j]
            /\ pc'[j] = pc[j] )
          => expected_players'[j] \subseteq SubscribedPlayers(j, subscribed_players')]_vars

\* C37: when get_flow_stream ends on QueueEmpty no audio of the last track
\* is left behind: the fadeout part kept from the last track has been
\* yielded or crossfaded, so last_fadeout_part is empty at the end.
C37_NoFadeoutLeftAtEnd ==
    flow.pos = "ended" => flow.last_fadeout_part = <<>>

\* The parts of a sequence of bytes objects, joined.
RECURSIVE Joined(_)
Joined(parts) ==
    IF parts = <<>> THEN <<>> ELSE Head(parts) \o Joined(Tail(parts))

\* What the media streams of the items 1..n that were found deliver, in order.
RECURSIVE Delivered(_, _)
Delivered(tracks, n) ==
    IF n = 0 THEN <<>>
    ELSE Delivered(tracks, n - 1) \o
           (IF tracks[n].found
              THEN [k \in 1..tracks[n].chunks |-> <<n, k>>]
              ELSE <<>>)

\* C38: with crossfade disabled, what get_flow_stream has yielded when it
\* ends is the audio that the media streams of the streamed tracks delivered,
\* joined in order, for tracks of every length (a track of fewer than
\* 2 x buffer_size bytes included).
C38_NoCrossfadeConcatenation ==
    ( /\ flow.pos = "ended"
      /\ \A i \in DOMAIN flow.tracks : ~flow.tracks[i].crossfade )
    => Joined(flow.yielded) = Delivered(flow.tracks, Len(flow.tracks))

\* C39 (as a property a finite run refutes): a subscribe() that starts on a
\* job that is already finished (stopped, aborted on the timeout, cancelled
\* by the grace timer, ended by exhaustion or by an error) ends: when it
\* reaches its read loop the empty chunk is on its channel.  Nothing is put
\* on a channel that was registered with a finished job, so a generator
\* without it waits in sub_queue.get() until its client goes away.
C39_SubscribeToFinishedEnds ==
    [][\A s \in Subs, j \in JobIds :
          ( /\ num_subs' = num_subs + 1
            /\ s = num_subs'
            /\ sub_job'[s] = j
            /\ finished(j) )
          => (sub_state'[s] # "active" \/ HasEOF(s)')]_vars

====
